---- MODULE Spec2Model ----
(***************************************************************************)
(* kodi-playing: the poll loop of KodiPlaying (kodi.py), its playback log  *)
(* (kodi-playing.csv) and the history lookup of show_song_info.            *)
(*                                                                         *)
(* A Python str is modelled as a sequence of one-character strings, so     *)
(* that split, substring search, replace and the csv reader are computed   *)
(* as the code computes them.  A JSON object is a record; the failure      *)
(* sentinel '' of _json_request is the empty sequence.                     *)
(***************************************************************************)
EXTENDS Integers, Sequences, FiniteSets, TLC

TAB == "\t"
NL == "\n"
QUOTE == "\""

(* The separator of the radio plugin titles, ' - ' (kodi.py:174). *)
RADIO_SEP == <<" ", "-", " ">>

(***************************************************************************)
(* Python str operations                                                   *)
(***************************************************************************)

(* sub occurs in s at index i (1-based). *)
StartsAt(s, sub, i) ==
    /\ i + Len(sub) - 1 <= Len(s)
    /\ \A k \in 1..Len(sub) : s[i + k - 1] = sub[k]

(* str.find: the least index at which sub occurs in s, 0 when it does not. *)
Find(s, sub) ==
    IF \E i \in 1..(Len(s) + 1) : StartsAt(s, sub, i)
    THEN CHOOSE i \in 1..(Len(s) + 1) :
            StartsAt(s, sub, i) /\ \A j \in 1..(i - 1) : ~StartsAt(s, sub, j)
    ELSE 0

(* Python `sub in s`; the empty string is in every string. *)
Contains(sub, s) == \E i \in 1..(Len(s) + 1) : StartsAt(s, sub, i)

(* str.split(sep) for a non-empty sep. *)
RECURSIVE split(_, _)
split(s, sep) ==
    LET i == Find(s, sep)
    IN  IF i = 0
        THEN <<s>>
        ELSE <<SubSeq(s, 1, i - 1)>> \o split(SubSeq(s, i + Len(sep), Len(s)), sep)

(* sep.join(parts) *)
RECURSIVE join(_, _)
join(sep, parts) ==
    IF parts = <<>> THEN <<>>
    ELSE IF Len(parts) = 1 THEN parts[1]
    ELSE parts[1] \o sep \o join(sep, Tail(parts))

IsQuote(c) == c = QUOTE
NotQuote(c) == ~IsQuote(c)

(* s.replace('"', '') *)
replace_quotes(s) == SelectSeq(s, NotQuote)

Digits == <<"0", "1", "2", "3", "4", "5", "6", "7", "8", "9">>

IsDigit(c) == \E d \in 1..10 : Digits[d] = c

DigitValue(c) == (CHOOSE d \in 1..10 : Digits[d] = c) - 1

(* str(n) of a natural number. *)
RECURSIVE nat_str(_)
nat_str(n) ==
    IF n < 10 THEN <<Digits[n + 1]>>
    ELSE nat_str(n \div 10) \o <<Digits[(n % 10) + 1]>>

(* str(n) / f"{n}" of an int. *)
int_str(n) == IF n < 0 THEN <<"-">> \o nat_str(0 - n) ELSE nat_str(n)

(* f"{n:02d}" of a natural number: at least two digits. *)
format_02d(n) == IF n < 10 THEN <<"0">> \o nat_str(n) ELSE nat_str(n)

IsSpace(c) == c \in {" ", TAB, NL}

RECURSIVE lstrip(_)
lstrip(s) == IF s /= <<>> /\ IsSpace(Head(s)) THEN lstrip(Tail(s)) ELSE s

RECURSIVE rstrip(_)
rstrip(s) ==
    IF s /= <<>> /\ IsSpace(s[Len(s)]) THEN rstrip(SubSeq(s, 1, Len(s) - 1)) ELSE s

RECURSIVE digits_value(_)
digits_value(s) ==
    IF s = <<>> THEN 0
    ELSE 10 * digits_value(SubSeq(s, 1, Len(s) - 1)) + DigitValue(s[Len(s)])

AllDigits(s) == s /= <<>> /\ \A k \in 1..Len(s) : IsDigit(s[k])

(* int(s) accepts surrounding whitespace and one sign; anything else is a *)
(* ValueError.                                                            *)
int_ok(s) ==
    LET t == rstrip(lstrip(s))
    IN  IF t /= <<>> /\ t[1] \in {"-", "+"} THEN AllDigits(Tail(t)) ELSE AllDigits(t)

int_value(s) ==
    LET t == rstrip(lstrip(s))
    IN  IF t[1] = "-" THEN 0 - digits_value(Tail(t))
        ELSE IF t[1] = "+" THEN digits_value(Tail(t))
        ELSE digits_value(t)

(* utils.str_int: int(nr_str), the default on ValueError. *)
str_int(nr_str, default_int) ==
    IF int_ok(nr_str) THEN int_value(nr_str) ELSE default_int

(***************************************************************************)
(* csv.reader(f, delimiter='\t') over the whole text of the file: the      *)
(* reader's state machine with the default dialect (quotechar '"',         *)
(* doublequote, not strict).                                               *)
(***************************************************************************)
RECURSIVE csv_parse(_, _, _, _, _, _)
csv_parse(s, i, state, field, row, rows) ==
    IF i > Len(s)
    THEN IF state = "START_RECORD" THEN rows ELSE Append(rows, Append(row, field))
    ELSE
      LET c == s[i]
      IN  CASE state = "START_RECORD" /\ c = NL ->
                 csv_parse(s, i + 1, "START_RECORD", <<>>, <<>>, Append(rows, <<>>))
            [] state \in {"START_RECORD", "START_FIELD"} /\ c = QUOTE ->
                 csv_parse(s, i + 1, "IN_QUOTED_FIELD", field, row, rows)
            [] state = "START_FIELD" /\ c = NL ->
                 csv_parse(s, i + 1, "START_RECORD", <<>>, <<>>,
                           Append(rows, Append(row, field)))
            [] state \in {"START_RECORD", "START_FIELD"} /\ c = TAB ->
                 csv_parse(s, i + 1, "START_FIELD", <<>>, Append(row, field), rows)
            [] state \in {"START_RECORD", "START_FIELD"} /\ c \notin {NL, QUOTE, TAB} ->
                 csv_parse(s, i + 1, "IN_FIELD", Append(field, c), row, rows)
            [] state \in {"IN_FIELD", "QUOTE_IN_QUOTED_FIELD"} /\ c = NL ->
                 csv_parse(s, i + 1, "START_RECORD", <<>>, <<>>,
                           Append(rows, Append(row, field)))
            [] state \in {"IN_FIELD", "QUOTE_IN_QUOTED_FIELD"} /\ c = TAB ->
                 csv_parse(s, i + 1, "START_FIELD", <<>>, Append(row, field), rows)
            [] state = "IN_FIELD" /\ c \notin {NL, TAB} ->
                 csv_parse(s, i + 1, "IN_FIELD", Append(field, c), row, rows)
            [] state = "IN_QUOTED_FIELD" /\ c = QUOTE ->
                 csv_parse(s, i + 1, "QUOTE_IN_QUOTED_FIELD", field, row, rows)
            [] state = "IN_QUOTED_FIELD" /\ c /= QUOTE ->
                 csv_parse(s, i + 1, "IN_QUOTED_FIELD", Append(field, c), row, rows)
            [] state = "QUOTE_IN_QUOTED_FIELD" /\ c = QUOTE ->
                 csv_parse(s, i + 1, "IN_QUOTED_FIELD", Append(field, c), row, rows)
            [] state = "QUOTE_IN_QUOTED_FIELD" /\ c \notin {NL, TAB, QUOTE} ->
                 csv_parse(s, i + 1, "IN_FIELD", Append(field, c), row, rows)

csv_reader(text) == csv_parse(text, 1, "START_RECORD", <<>>, <<>>, <<>>)

(* reversed(list(...)) *)
RECURSIVE reversed(_)
reversed(l) == IF l = <<>> THEN <<>> ELSE Append(reversed(Tail(l)), Head(l))

(***************************************************************************)
(* Exceptions: an operator that models a Python function returns           *)
(* Ret(value), or Raise(name) when the function raises.                    *)
(***************************************************************************)
Ret(v) == [exc |-> "none", val |-> v]
Raise(e) == [exc |-> e, val |-> <<>>]

(* The failure sentinel '' of _json_request. *)
Failure == <<>>

(* dict[key] succeeds: d is a dict (a record) that has the key.  d[key] on *)
(* the sentinel '' is a TypeError, on a dict without the key a KeyError.   *)
IsDict(d) == d /= Failure
HasKey(d, k) == IsDict(d) /\ k \in DOMAIN d

(***************************************************************************)
(* Configuration (settings.ini as read by read_config)                     *)
(***************************************************************************)
address == <<"h">>
port == 8080

(***************************************************************************)
(* The remote: what the network can answer to one request.                 *)
(***************************************************************************)
TransportErrors == {"URLError", "timeout", "JSONDecodeError"}

NetError(k) == [kind |-> k]
NetOk(body) == [kind |-> "ok", body |-> body]
NetErrors == {NetError(k) : k \in TransportErrors}

(* A JSON-RPC error response: a dict without 'result'. *)
ErrorBody == [error |-> "e"]

(* Titles, over the characters A, B, E, S, the quote and the separator. *)
TitleA == <<"A">>
TitleB == <<"B">>
TitleE == <<"E">>
TitleSkip == <<"S", "A">>
TitleRadio == <<"A", " ", "-", " ", "B">>
TitleRadioSame == <<"B", " ", "-", " ", "B">>
TitleRadioEmpty == <<"A", " ", "-", " ">>

FilePath == <<"f">>
PluginPath == <<"p", "l", "u", "g", "i", "n", ":", "/", "/", "r">>
Thumb1 == <<"t">>
Thumb2 == <<"u">>

(* Player.GetItem items.  A song carries album and duration; a video item  *)
(* carries showtitle, season and episode and no duration.                  *)
SongItem(t, artist, album, duration, thumbnail, path) ==
    [title |-> t, artist |-> artist, album |-> album, duration |-> duration,
     thumbnail |-> thumbnail, mediapath |-> path, type |-> "song"]

EpisodeItem(t, showtitle, season, episode, thumbnail, path) ==
    [title |-> t, artist |-> <<>>, album |-> <<>>, showtitle |-> showtitle,
     season |-> season, episode |-> episode,
     thumbnail |-> thumbnail, mediapath |-> path, type |-> "episode"]

Items ==
    { SongItem(TitleA, <<TitleB>>, <<QUOTE, "X", QUOTE>>, 200, Thumb1, FilePath),
      SongItem(TitleB, <<<<QUOTE, "A", QUOTE>>>>, <<>>, 0, Thumb2, FilePath),
      SongItem(TitleSkip, <<TitleB>>, <<"X">>, 200, Thumb1, FilePath),
      SongItem(TitleRadio, <<>>, <<>>, 0, <<>>, PluginPath),
      SongItem(TitleRadioSame, <<>>, <<>>, 0, <<>>, PluginPath),
      SongItem(TitleRadioEmpty, <<>>, <<>>, 0, <<>>, PluginPath),
      SongItem(<<>>, <<>>, <<>>, 0, <<>>, FilePath),
      EpisodeItem(TitleE, <<"X">>, 1, 2, <<>>, FilePath) }

ItemBodies == {[result |-> [item |-> it]] : it \in Items}

(* Player.GetActivePlayers results: no player, one player, two players. *)
PlayersBodies ==
    { [result |-> <<>>],
      [result |-> <<[playerid |-> 0, type |-> "audio"]>>],
      [result |-> <<[playerid |-> 0, type |-> "audio"],
                    [playerid |-> 1, type |-> "video"]>>] }

(* Files.PrepareDownload: the download path the remote gives for an image. *)
PreparedPath(thumb) == <<"i", "/">> \o thumb
DownloadBody(thumb) == [result |-> [details |-> [path |-> PreparedPath(thumb)]]]

(* Player.GetProperties bodies. *)
TimesBody ==
    [result |-> [percentage |-> 50,
                 totaltime |-> [hours |-> 0, minutes |-> 3, seconds |-> 20]]]
SpeedBody == [result |-> [speed |-> 1]]
PositionBody == [result |-> [position |-> 1]]

(* The answers to one request: a transport failure, a JSON-RPC error       *)
(* response, or one of the bodies.                                         *)
Answers(bodies) == {NetError("URLError")} \cup {NetOk(b) : b \in bodies \cup {ErrorBody}}

(***************************************************************************)
(* Remote client and the queries built on it                               *)
(***************************************************************************)

(* A client that lets the exceptions of the exchange through. *)
json_request_raising(net) ==
    IF net.kind = "ok" THEN Ret(net.body) ELSE Raise(net.kind)

(* _json_request: the parsed response, '' on any exception. *)
json_request(net) ==
    IF net.kind = "ok" THEN Ret(net.body) ELSE Ret(Failure)

(* A query that lets the exceptions of the look-up through. *)
get_player_id_raising(net) ==
    LET r == json_request(net)
        js == r.val
    IN  IF ~IsDict(js) THEN Raise("TypeError")
        ELSE IF ~HasKey(js, "result") THEN Raise("KeyError")
        ELSE IF Len(js.result) = 0 THEN Raise("IndexError")
        ELSE IF ~HasKey(js.result[1], "playerid") THEN Raise("KeyError")
        ELSE Ret(js.result[1].playerid)

(* _get_player_id: the request is made outside the try; every exception of *)
(* js_players['result'][0]['playerid'] gives -1.                           *)
get_player_id(net) ==
    LET r == json_request(net)
        js == r.val
    IN  IF r.exc /= "none" THEN r
        ELSE IF HasKey(js, "result") /\ Len(js.result) > 0
                /\ HasKey(js.result[1], "playerid")
        THEN Ret(js.result[1].playerid)
        ELSE Ret(-1)

(* get_playing: only KeyError is caught. *)
get_playing(pid, net) ==
    IF pid < 0 THEN Ret(Failure)
    ELSE
      LET r == json_request(net)
          js == r.val
      IN  IF r.exc /= "none" THEN r
          ELSE IF ~IsDict(js) THEN Raise("TypeError")
          ELSE IF HasKey(js, "result") /\ HasKey(js.result, "item")
                  /\ HasKey(js.result.item, "title")
          THEN IF js.result.item.title /= <<>> THEN Ret(js) ELSE Ret(Failure)
          ELSE Ret(Failure)

(* get_thumbnail_path: every exception gives ''. *)
get_thumbnail_path(net) ==
    LET r == json_request(net)
        js == r.val
    IN  IF r.exc = "none" /\ HasKey(js, "result") /\ HasKey(js.result, "details")
           /\ HasKey(js.result.details, "path")
        THEN Ret(<<"http://">> \o address \o <<":">> \o int_str(port) \o <<"/">>
                 \o js.result.details.path)
        ELSE Ret(<<>>)

(* get_playlist_position: only KeyError is caught. *)
get_playlist_position(pid, net) ==
    IF pid < 0 THEN Ret(0)
    ELSE
      LET r == json_request(net)
          js == r.val
      IN  IF r.exc /= "none" THEN r
          ELSE IF ~IsDict(js) THEN Raise("TypeError")
          ELSE IF HasKey(js, "result") /\ HasKey(js.result, "position")
          THEN Ret(js.result.position)
          ELSE Ret(0)

(* A Python int and a Python tuple, told apart as Python tells them. *)
PyInt(n) == [py |-> "int", v |-> n]
PyTuple(t) == [py |-> "tuple", v |-> t]

(* get_media_times: the int 0 without a player, the pair (0, 0) on any    *)
(* exception, else (duration, played, left).                              *)
get_media_times(pid, net) ==
    IF pid < 0 THEN Ret(PyInt(0))
    ELSE
      LET r == json_request(net)
          js == r.val
      IN  IF r.exc /= "none" THEN r
          ELSE IF HasKey(js, "result") /\ HasKey(js.result, "totaltime")
                  /\ HasKey(js.result, "percentage")
          THEN LET tt == js.result.totaltime
                   duration == tt.hours * 60 * 60 + tt.minutes * 60 + tt.seconds
                   played == (duration * js.result.percentage) \div 100
               IN  Ret(PyTuple(<<duration, played, duration - played>>))
          ELSE Ret(PyTuple(<<0, 0>>))

(* `a, b, c = value`: TypeError for an int, ValueError for a tuple of     *)
(* another length.                                                        *)
unpack3(r) ==
    IF r.exc /= "none" THEN r
    ELSE IF r.val.py = "int" THEN Raise("TypeError")
    ELSE IF Len(r.val.v) /= 3 THEN Raise("ValueError")
    ELSE Ret(r.val.v)

(* _is_playing: only KeyError is caught. *)
is_playing(pid, net) ==
    IF pid < 0 THEN Ret(FALSE)
    ELSE
      LET r == json_request(net)
          js == r.val
      IN  IF r.exc /= "none" THEN r
          ELSE IF ~IsDict(js) THEN Raise("TypeError")
          ELSE IF HasKey(js, "result") /\ HasKey(js.result, "speed")
          THEN Ret(js.result.speed > 0)
          ELSE Ret(FALSE)

(***************************************************************************)
(* Play/pause                                                              *)
(***************************************************************************)

(* The marker of a media path that is played by a plugin. *)
PLUGIN == <<"p", "l", "u", "g", "i", "n", ":", "/", "/">>

(* What is posted to the remote: one request object, or an array of them. *)
Single(req) == [batch |-> FALSE, calls |-> <<req>>]
Batch(reqs) == [batch |-> TRUE, calls |-> reqs]

(* What _is_playing posts. *)
is_playing_requests(pid) ==
    IF pid < 0 THEN <<>>
    ELSE <<Single([method |-> "Player.GetProperties", playerid |-> pid])>>

(* What stop_player posts. *)
stop_player(pid) ==
    IF pid < 0 THEN <<>>
    ELSE <<Single([method |-> "Player.Stop", playerid |-> pid])>>

(* What _play_mediapath posts. *)
play_mediapath(path) ==
    <<Batch(<<[method |-> "Playlist.Clear", playlistid |-> 0],
              [method |-> "Playlist.Add", playlistid |-> 0, file |-> path],
              [method |-> "Player.Open", playlistid |-> 0, position |-> 0]>>)>>

(* A toggle that pauses a plugin stream like any other media. *)
play_pause_player_no_plugin(path, pid, pos, net1, net2) ==
    IF pid < 0
    THEN IF pos >= 0
         THEN [exc |-> "none", position |-> -1,
               requests |-> <<Single([method |-> "Player.Open", playlistid |-> 0,
                                      position |-> pos])>>]
         ELSE [exc |-> "none", position |-> pos, requests |-> <<>>]
    ELSE [exc |-> is_playing(pid, net2).exc, position |-> pos,
          requests |-> <<Single([method |-> "Player.PlayPause", playerid |-> pid])>>
                       \o is_playing_requests(pid)]

(* A toggle that keeps the saved position after it has reopened the        *)
(* playlist.                                                               *)
play_pause_player_keeps_position(path, pid, pos, net1, net2) ==
    IF pid < 0 /\ pos >= 0 /\ ~Contains(PLUGIN, path)
    THEN [exc |-> "none", position |-> pos,
          requests |-> <<Single([method |-> "Player.Open", playlistid |-> 0,
                                 position |-> pos])>>]
    ELSE [exc |-> "none", position |-> pos, requests |-> <<>>]

(* play_pause_player: the requests posted in order, self.position after    *)
(* it, and the exception it ends with.  net1 answers the _is_playing of    *)
(* the plugin branch, net2 the one of _set_play_pause_label.               *)
play_pause_player(path, pid, pos, net1, net2) ==
    LET label == is_playing(pid, net2)
        playing == is_playing(pid, net1)
    IN  IF Contains(PLUGIN, path)
        THEN IF playing.exc /= "none"
             THEN [exc |-> playing.exc, position |-> pos,
                   requests |-> is_playing_requests(pid)]
             ELSE [exc |-> label.exc, position |-> pos,
                   requests |-> is_playing_requests(pid)
                                \o (IF playing.val THEN stop_player(pid)
                                    ELSE play_mediapath(path))
                                \o is_playing_requests(pid)]
        ELSE IF pid < 0
        THEN IF pos >= 0
             THEN [exc |-> label.exc, position |-> -1,
                   requests |-> <<Single([method |-> "Player.Open", playlistid |-> 0,
                                          position |-> pos])>>
                                \o is_playing_requests(pid)]
             ELSE [exc |-> "none", position |-> pos, requests |-> <<>>]
        ELSE [exc |-> label.exc, position |-> pos,
              requests |-> <<Single([method |-> "Player.PlayPause", playerid |-> pid])>>
                           \o is_playing_requests(pid)]

(***************************************************************************)
(* Now-playing tracker: the pure steps of one cycle of _run_check          *)
(***************************************************************************)

(* A split that takes the first two of two or more parts. *)
radio_split_two_or_more(title, artist) ==
    LET arr == split(title, RADIO_SEP)
    IN  IF artist = <<>> /\ Len(arr) >= 2
        THEN [title |-> arr[2], artist |-> arr[1]]
        ELSE [title |-> title, artist |-> artist]

(* Radio plugin title: with no artist, a title that splits on ' - ' into   *)
(* exactly two parts gives the artist and the title.                       *)
radio_split(title, artist) ==
    LET arr == split(title, RADIO_SEP)
    IN  IF artist = <<>> /\ Len(arr) = 2
        THEN [title |-> arr[2], artist |-> arr[1]]
        ELSE [title |-> title, artist |-> artist]

(* A skip check that looks at the first pattern only. *)
skip_title_first_only(patterns, title) ==
    Contains(split(patterns, <<",">>)[1], title)

(* The skip check: some pattern of skip_titles.split(',') is in the title. *)
skip_title(patterns, title) ==
    LET arr == split(patterns, <<",">>)
    IN  \E k \in 1..Len(arr) : Contains(arr[k], title)

(* Change detection that takes an empty title. *)
title_changed_empty(skip, title, prev) == ~skip /\ title /= prev

(* Change detection that forgets the previous title. *)
title_changed_no_prev(skip, title, prev) == ~skip /\ title /= <<>>

(* Change detection that ignores the skip flag. *)
title_changed_no_skip(skip, title, prev) == title /= <<>> /\ title /= prev

(* Change detection: `not skip and title and title != prev_title`. *)
title_changed(skip, title, prev) == ~skip /\ title /= <<>> /\ title /= prev

(* An acceptance guard that lets every title through. *)
accepted_always(title, artist) == TRUE

(* Acceptance guard: `title != artist`. *)
accepted(title, artist) == title /= artist

(* An album resolution that prefers the album. *)
resolve_album_album_first(item) ==
    IF item.album /= <<>> \/ ~HasKey(item, "showtitle") THEN replace_quotes(item.album)
    ELSE replace_quotes(item.showtitle)

(* Album: showtitle, the album on KeyError; quotes removed. *)
resolve_album(item) ==
    IF HasKey(item, "showtitle") THEN replace_quotes(item.showtitle)
    ELSE replace_quotes(item.album)

(* A duration without the fallback to the playback properties. *)
resolve_duration_item_only(item, pid, net) ==
    IF HasKey(item, "duration") THEN item.duration ELSE 0

(* Duration: the item's duration, on KeyError the total of get_media_times, *)
(* on any exception of that 0.                                              *)
resolve_duration(item, pid, net) ==
    IF HasKey(item, "duration") THEN item.duration
    ELSE LET r == unpack3(get_media_times(pid, net))
         IN  IF r.exc = "none" THEN r.val[1] ELSE 0

(* Season/episode tag, '' on any exception. *)
resolve_season_episode(item) ==
    IF HasKey(item, "season") /\ HasKey(item, "episode")
       /\ item.season > -1 /\ item.episode > -1
    THEN <<"S">> \o format_02d(item.season) \o <<"E">> \o format_02d(item.episode)
    ELSE <<>>

(* A thumbnail path without the fallback to the previous one. *)
resolve_thumbnail_no_fallback(thumbnail, prev, net) ==
    IF thumbnail = <<>> THEN <<>> ELSE get_thumbnail_path(net).val

(* Thumbnail path of the cycle: the resolved path, the previous one when   *)
(* resolution gives '', '' when the item has no thumbnail.                 *)
resolve_thumbnail(thumbnail, prev, net) ==
    LET path == get_thumbnail_path(net).val
    IN  IF thumbnail = <<>> THEN <<>>
        ELSE IF path /= <<>> THEN path
        ELSE prev

(* prev_thumbnail_path after the cycle: saved only on a successful        *)
(* resolution.                                                            *)
saved_thumbnail(thumbnail, prev, net) ==
    LET path == get_thumbnail_path(net).val
    IN  IF thumbnail /= <<>> /\ path /= <<>> THEN path ELSE prev

(* A line that puts the artist before the title. *)
csv_line_artist_first(title, artist, album, duration, thumbnail_path, season_episode) ==
    artist \o <<TAB>> \o title \o <<TAB>> \o album \o <<TAB>> \o int_str(duration)
    \o <<TAB>> \o thumbnail_path \o <<TAB>> \o season_episode \o <<NL>>

(* The line written to the csv file. *)
csv_line(title, artist, album, duration, thumbnail_path, season_episode) ==
    title \o <<TAB>> \o artist \o <<TAB>> \o album \o <<TAB>> \o int_str(duration)
    \o <<TAB>> \o thumbnail_path \o <<TAB>> \o season_episode \o <<NL>>

(***************************************************************************)
(* show_song_info                                                          *)
(***************************************************************************)

(* The scan of the reversed rows: the rows numbered index and index + 1    *)
(* from the end that have at least 5 fields; it stops at index + 1.        *)
RECURSIVE scan_rows(_, _, _, _)
scan_rows(rows, i, index, acc) ==
    IF i > Len(rows) THEN acc
    ELSE IF Len(rows[i]) >= 5 /\ i \in {index, index + 1}
    THEN IF i = index + 1 THEN Append(acc, rows[i])
         ELSE scan_rows(rows, i + 1, index, Append(acc, rows[i]))
    ELSE scan_rows(rows, i + 1, index, acc)

(* A scan of the rows in file order. *)
read_csv_data_forward(text, index) == scan_rows(csv_reader(text), 1, index, <<>>)

(* csv_data of show_song_info(index) for the text of the csv file. *)
read_csv_data(text, index) == scan_rows(reversed(csv_reader(text)), 1, index, <<>>)

NoNote == [kind |-> "none"]
SongNote(summary) == [kind |-> "song", summary |-> summary]
UnableNote == [kind |-> "unable"]

(* urlretrieve is needed: the row has a thumbnail and the file is absent,  *)
(* or there is one row, or the thumbnail differs from the previous row's,  *)
(* or index > 1.                                                           *)
needs_download(data, index, thumb_exists) ==
    /\ data[1][5] /= <<>>
    /\ \/ ~thumb_exists
       \/ Len(data) = 1
       \/ data[1][5] /= data[2][5]
       \/ index > 1

(* show_song_info(index) from csv_data on: what it raises, the            *)
(* notification it shows, and whether the thumbnail file exists            *)
(* afterwards.  net is the answer to Player.GetProperties, dl_ok whether   *)
(* urlretrieve succeeds.                                                   *)
show_rows(index, data, typ, pid, thumb_exists, timeout, net, dl_ok) ==
    LET out(e, n, t) == [exc |-> e, note |-> n, tmp_thumb |-> t, csv_data |-> data]
    IN  IF data = <<>> THEN out("none", NoNote, thumb_exists)
        ELSE IF data[1][3] /= <<>> /\ Len(data[1]) < 6
        THEN out("IndexError", NoNote, thumb_exists)
        ELSE IF /\ str_int(data[1][4], 0) > 0
                /\ index = 1
                /\ typ /= "song"
                /\ unpack3(get_media_times(pid, net)).exc /= "none"
        THEN out(unpack3(get_media_times(pid, net)).exc, NoNote, thumb_exists)
        ELSE IF needs_download(data, index, thumb_exists) /\ ~dl_ok
        THEN out("URLError", NoNote, thumb_exists)
        ELSE IF Len(data[1]) < 6
        THEN out("IndexError", NoNote,
                 thumb_exists \/ needs_download(data, index, thumb_exists))
        ELSE out("none",
                 IF timeout > 0 THEN SongNote(data[1][1]) ELSE NoNote,
                 thumb_exists \/ needs_download(data, index, thumb_exists))

(* show_song_info(index) on the text of the csv file. *)
show_song_info(index, text, typ, pid, thumb_exists, timeout, net, dl_ok) ==
    CHOOSE r \in {show_rows(index, data, typ, pid, thumb_exists, timeout, net, dl_ok) :
                    data \in {read_csv_data(text, index)}} : TRUE

(***************************************************************************)
(* State                                                                   *)
(***************************************************************************)
VARIABLES
    csv,                  \* text of kodi-playing.csv
    tmp_thumb,            \* exists(self.tmp_thumb)
    prev_title,           \* _run_check locals
    prev_thumbnail_path,
    was_connected,
    title,                \* the cycle's title, until it is saved as prev_title
    player_id,            \* self.player_id
    mediapath,            \* self.mediapath
    type,                 \* self.type
    position,             \* self.position
    check_done_event,     \* the cancellation Event
    skip_titles,          \* kodi_dict['kodi']['skip_titles']
    notification_timeout, \* self.notification_timeout
    icon,                 \* the indicator's icon
    rebuilt,              \* the last probe step built the indicator's menu anew
    pc,                   \* where the worker thread is
    exc,                  \* the exception that ended the worker thread
    ui_exc,               \* the exception raised by the UI callback of the last step
    note,                 \* the notification shown by the last step
    probe,                \* result of the last _is_connected of the loop
    cycle,                \* number of cycles begun
    appends,              \* number of lines appended to the csv file by this run
    seen,                 \* what the tracker saw and wrote in the last cycles that got an item
    call,                 \* the last call of a function applied on its own
    limit,                \* number of cycles explored in this behaviour
    sent                  \* the requests each thread has posted and not yet got answered

vars == <<csv, tmp_thumb, prev_title, prev_thumbnail_path, was_connected, title,
          player_id, mediapath, type, position, check_done_event, skip_titles,
          notification_timeout, icon, rebuilt, pc, exc, ui_exc, note, probe, cycle,
          appends, seen, call, limit, sent>>

(* What is fixed when the program starts: settings.ini, and the number of   *)
(* cycles explored.                                                        *)
config == <<skip_titles, notification_timeout, limit>>
tracker == <<prev_title, prev_thumbnail_path, title>>
player == <<player_id, mediapath, type, position>>

(* Number of poll cycles explored. *)
MaxCycles == 3

(* Number of poll cycles explored together with the menu callbacks. *)
MaxUICycles == 2

(* A record left in the csv file by an earlier run of the program. *)
OldLine == csv_line(<<"B">>, <<"A">>, <<>>, 0, <<>>, <<>>)

NoCall == [f |-> "none"]

(* The state after KodiPlaying.__init__: the thread is about to run        *)
(* _run_check; the csv file and the thumbnail may be left from an earlier  *)
(* run; settings.ini has been read.                                        *)
(* No thread waits for an answer: the worker has posted nothing at its     *)
(* position, the menu callback has no request left.  A callback under way  *)
(* keeps the requests it has still to get answered, whether it resets the  *)
(* position at its end, what it raises, and the worker's cycle at which it *)
(* began.                                                                  *)
NoCommand == [left |-> <<>>, reset |-> FALSE, exc |-> "none", since |-> 0]
NothingSent == [worker |-> <<>>, ui |-> NoCommand]

Constructed ==
    /\ prev_title = <<>>
    /\ prev_thumbnail_path = <<>>
    /\ was_connected = FALSE
    /\ title = <<>>
    /\ player_id = -1
    /\ mediapath = <<>>
    /\ type = ""
    /\ position = -1
    /\ check_done_event = FALSE
    /\ icon = "grey"
    /\ rebuilt = FALSE
    /\ pc = "start"
    /\ exc = "none"
    /\ ui_exc = "none"
    /\ note = NoNote
    /\ probe = "none"
    /\ cycle = 0
    /\ appends = 0
    /\ seen = <<>>
    /\ sent = NothingSent

Init ==
    /\ Constructed
    /\ csv \in {<<>>, OldLine}
    /\ tmp_thumb \in BOOLEAN
    /\ skip_titles \in {<<"X", ",", "S">>, <<>>}
    /\ notification_timeout \in {10, 0}
    /\ call = NoCall
    /\ limit = MaxCycles

(***************************************************************************)
(* The worker thread: _run_check                                           *)
(***************************************************************************)

(* A start that leaves the csv file as it was. *)
StartKeepsLog ==
    /\ pc = "start"
    /\ prev_title' = <<>>
    /\ prev_thumbnail_path' = <<>>
    /\ was_connected' = FALSE
    /\ pc' = "top"
    /\ note' = NoNote
    /\ ui_exc' = "none"
    /\ UNCHANGED <<csv, tmp_thumb, title, player, check_done_event, config, sent, icon, rebuilt, exc,
                   probe, cycle, appends, seen, call>>

(* open(self.csv, 'w').close() and the locals. *)
Start ==
    /\ pc = "start"
    /\ csv' = <<>>
    /\ prev_title' = <<>>
    /\ prev_thumbnail_path' = <<>>
    /\ was_connected' = FALSE
    /\ pc' = "top"
    /\ note' = NoNote
    /\ ui_exc' = "none"
    /\ UNCHANGED <<tmp_thumb, title, player, check_done_event, config, sent, icon, rebuilt, exc,
                   probe, cycle, appends, seen, call>>

(* A loop condition that does not look at the event. *)
loop_continues_always(event) == TRUE

(* `while not self.check_done_event.is_set()` *)
loop_continues(event) == ~event

(* `while not self.check_done_event.is_set()` fails: the thread ends. *)
WorkerExit ==
    /\ pc = "top"
    /\ ~loop_continues(check_done_event)
    /\ pc' = "done"
    /\ note' = NoNote
    /\ ui_exc' = "none"
    /\ UNCHANGED <<csv, tmp_thumb, tracker, was_connected, player, check_done_event,
                   config, sent, icon, rebuilt, exc, probe, cycle, appends, seen, call>>

(* The answers to _is_playing that matter: asked only by a menu rebuild    *)
(* with a player.                                                          *)
SpeedAnswers(old, pid) ==
    IF pid >= 0 /\ pid /= old THEN Answers({SpeedBody}) ELSE {NetOk(SpeedBody)}

(* A lost-connection branch that shows the message on every failed probe. *)
show_lost_connection_always(was) == TRUE

(* `if was_connected:` of the lost-connection branch: the message is shown *)
(* when the previous cycle was connected.                                  *)
show_lost_connection(was) == was

(* A cycle that fetches the item whatever the player id. *)
fetches_item_always(pid) == TRUE

(* `if self.player_id < 0: ... else:` the item is fetched only with a      *)
(* player.                                                                 *)
fetches_item(pid) == pid >= 0

(* A connected cycle that builds the menu every time. *)
rebuilds_menu_always(old, new) == TRUE

(* `if old_player_id != self.player_id:` the menu is built anew and the    *)
(* icon set when the player id changed.                                    *)
rebuilds_menu(old, new) == old /= new

(* A lost connection that keeps the player id. *)
lost_player_id_kept(pid) == pid

(* `self.player_id = -1` of the lost-connection branch. *)
lost_player_id(pid) == -1

(* Top of a cycle up to the item fetch: _is_connected, the lost-connection *)
(* branch, _get_player_id and the menu/icon update.  _build_menu calls     *)
(* _set_play_pause_label, which calls _is_playing.                         *)
Probe ==
    /\ pc = "top"
    /\ loop_continues(check_done_event)
    /\ cycle < limit
    /\ cycle' = cycle + 1
    /\ \/ /\ probe' = "down"
          /\ show_lost_connection(was_connected)
          /\ player_id' = lost_player_id(player_id)
          /\ icon' = "grey"
          /\ rebuilt' = TRUE
          /\ note' = UnableNote
          /\ was_connected' = FALSE
          /\ pc' = "wait"
          /\ exc' = exc
       \/ /\ probe' = "down"
          /\ ~show_lost_connection(was_connected)
          /\ pc' = "wait"
          /\ note' = NoNote
          /\ rebuilt' = FALSE
          /\ UNCHANGED <<player_id, icon, was_connected, exc>>
       \/ /\ probe' = "up"
          /\ was_connected' = TRUE
          /\ note' = NoNote
          /\ \E netp \in Answers(PlayersBodies) :
               \E pid \in {get_player_id(netp)} :
                 IF pid.exc /= "none"
                 THEN /\ pc' = "dead"
                      /\ exc' = pid.exc
                      /\ rebuilt' = FALSE
                      /\ UNCHANGED <<player_id, icon>>
                 ELSE
                   /\ player_id' = pid.val
                   /\ rebuilt' = rebuilds_menu(player_id, pid.val)
                   /\ \E nets \in SpeedAnswers(player_id, pid.val) :
                        \E menu \in {is_playing(pid.val, nets)} :
                          IF rebuilds_menu(player_id, pid.val) /\ menu.exc /= "none"
                          THEN /\ pc' = "dead"
                               /\ exc' = menu.exc
                               /\ icon' = icon
                          ELSE /\ pc' = IF fetches_item(pid.val) THEN "fetch" ELSE "wait"
                               /\ exc' = exc
                               /\ icon' = IF ~rebuilds_menu(player_id, pid.val) THEN icon
                                          ELSE IF pid.val < 0 THEN "grey"
                                          ELSE "normal"
    /\ ui_exc' = "none"
    /\ UNCHANGED <<csv, tmp_thumb, tracker, mediapath, type, position,
                   check_done_event, config, sent, appends, seen, call>>

(* What the tracker saw and did in a cycle that got an item. *)
Seen(n, t, a, skip, prev, thumb, url, line) ==
    [cycle |-> n, title |-> t, artist |-> a, skip |-> skip, prev |-> prev,
     thumb |-> thumb, url |-> url, line |-> line]

(* seen keeps the observation of the last such cycle and the one before. *)
Remember(s, o) == IF s = <<>> THEN <<o>> ELSE <<s[Len(s)], o>>

(* A write that opens the file afresh. *)
write_line(text, line) == line

(* open(self.csv, 'a') and write: the line is put at the end of the file.  *)
append_line(text, line) == text \o line

(* One cycle of the tracker on a fetched item (kodi.py:164-227): the       *)
(* resolved fields, the decisions and the line.  nett answers the          *)
(* Player.GetProperties of get_media_times, netd the Files.PrepareDownload.*)
track(item, prev, prev_thumb, patterns, pid, nett, netd) ==
    LET rs == radio_split(item.title, replace_quotes(join(<<" ">>, item.artist)))
        skip == skip_title(patterns, rs.title)
        changed == title_changed(skip, rs.title, prev)
        path == resolve_thumbnail(item.thumbnail, prev_thumb, netd)
    IN  [title |-> rs.title,
         artist |-> rs.artist,
         skip |-> skip,
         changed |-> changed,
         accepted |-> changed /\ accepted(rs.title, rs.artist),
         thumbnail_path |-> IF changed THEN path ELSE <<>>,
         saved |-> IF changed THEN saved_thumbnail(item.thumbnail, prev_thumb, netd)
                   ELSE prev_thumb,
         status |-> IF ~changed THEN "unresolved"
                    ELSE IF item.thumbnail = <<>> THEN "none"
                    ELSE IF get_thumbnail_path(netd).val /= <<>> THEN "ok"
                    ELSE "fail",
         line |-> IF changed /\ accepted(rs.title, rs.artist)
                  THEN csv_line(rs.title, rs.artist, resolve_album(item),
                                resolve_duration(item, pid, nett), path,
                                resolve_season_episode(item))
                  ELSE <<>>]

(* The answers that matter to a cycle on this item. *)
TimesAnswers(item) ==
    IF HasKey(item, "duration") THEN {NetOk(TimesBody)} ELSE Answers({TimesBody})
DownloadAnswers(item) ==
    IF item.thumbnail = <<>> THEN {NetOk(ErrorBody)}
    ELSE Answers({DownloadBody(item.thumbnail)})

(* The item fetch and the tracker, up to the append to the csv file        *)
(* (kodi.py:155-227).                                                      *)
Fetch ==
    /\ pc = "fetch"
    /\ \E netg \in Answers(ItemBodies) :
         \E js \in {get_playing(player_id, netg)} :
           \/ /\ js.exc /= "none"
              /\ pc' = "dead"
              /\ exc' = js.exc
              /\ UNCHANGED <<csv, tracker, mediapath, type, appends, seen>>
           \/ /\ js.exc = "none"
              /\ js.val = Failure
              /\ pc' = "wait"
              /\ UNCHANGED <<csv, tracker, mediapath, type, appends, seen, exc>>
           \/ /\ js.exc = "none"
              /\ js.val /= Failure
              /\ \E nett \in TimesAnswers(js.val.result.item),
                    netd \in DownloadAnswers(js.val.result.item) :
                   \E t \in {track(js.val.result.item, prev_title, prev_thumbnail_path,
                                   skip_titles, player_id, nett, netd)} :
                     /\ type' = js.val.result.item.type
                     /\ mediapath' = js.val.result.item.mediapath
                     /\ prev_thumbnail_path' = t.saved
                     /\ seen' = Remember(seen, Seen(cycle, t.title, t.artist, t.skip,
                                                    prev_title, t.status, t.thumbnail_path, t.line))
                     /\ exc' = exc
                     /\ IF t.accepted
                        THEN /\ csv' = append_line(csv, t.line)
                             /\ appends' = appends + 1
                             /\ title' = t.title
                             /\ pc' = "position"
                             /\ UNCHANGED prev_title
                        ELSE /\ prev_title' = IF t.changed THEN t.title ELSE prev_title
                             /\ pc' = "wait"
                             /\ UNCHANGED <<csv, appends, title>>
    /\ note' = NoNote
    /\ ui_exc' = "none"
    /\ UNCHANGED <<tmp_thumb, was_connected, player_id, position, check_done_event,
                   config, sent, icon, rebuilt, probe, cycle, call>>

(* self.position = self.get_playlist_position() *)
SavePosition ==
    /\ pc = "position"
    /\ \E net \in Answers({PositionBody}) :
         \E r \in {get_playlist_position(player_id, net)} :
           IF r.exc /= "none"
           THEN /\ pc' = "dead"
                /\ exc' = r.exc
                /\ position' = position
           ELSE /\ pc' = "notify"
                /\ position' = r.val
                /\ exc' = exc
    /\ note' = NoNote
    /\ ui_exc' = "none"
    /\ UNCHANGED <<csv, tmp_thumb, tracker, was_connected, player_id, mediapath, type,
                   check_done_event, config, sent, icon, rebuilt, probe, cycle, appends, seen, call>>

(* The answers that matter to show_song_info: get_media_times is asked for *)
(* media other than songs.                                                 *)
InfoAnswers(typ) == IF typ = "song" THEN {NetOk(TimesBody)} ELSE Answers({TimesBody})

(* self.show_song_info() of the worker, then prev_title = title. *)
Notify ==
    /\ pc = "notify"
    /\ \E net \in InfoAnswers(type), dl_ok \in BOOLEAN :
         \E r \in {show_song_info(1, csv, type, player_id, tmp_thumb,
                                  notification_timeout, net, dl_ok)} :
             /\ tmp_thumb' = r.tmp_thumb
             /\ note' = r.note
             /\ IF r.exc /= "none"
                THEN /\ pc' = "dead"
                     /\ exc' = r.exc
                     /\ UNCHANGED tracker
                ELSE /\ pc' = "wait"
                     /\ prev_title' = title
                     /\ title' = <<>>
                     /\ UNCHANGED <<prev_thumbnail_path, exc>>
    /\ ui_exc' = "none"
    /\ UNCHANGED <<csv, was_connected, player, check_done_event, config, sent, icon, rebuilt,
                   probe, cycle, appends, seen, call>>

(* self.check_done_event.wait(self.wait) returns: on the timeout or when   *)
(* the event is set.                                                       *)
Wait ==
    /\ pc = "wait"
    /\ pc' = "top"
    /\ note' = NoNote
    /\ ui_exc' = "none"
    /\ UNCHANGED <<csv, tmp_thumb, tracker, was_connected, player, check_done_event,
                   config, sent, icon, rebuilt, exc, probe, cycle, appends, seen, call>>

(***************************************************************************)
(* The UI thread: menu callbacks                                           *)
(***************************************************************************)

(* A quit that also forgets the player. *)
QuitForgetsPlayer ==
    /\ ~check_done_event
    /\ check_done_event' = TRUE
    /\ player_id' = -1
    /\ note' = NoNote
    /\ ui_exc' = "none"
    /\ UNCHANGED <<csv, tmp_thumb, tracker, was_connected, mediapath, type, position,
                   config, sent, icon, rebuilt, pc, exc, probe, cycle, appends, seen, call>>

(* quit: sets the event; Gtk.main_quit ends the UI. *)
Quit ==
    /\ ~check_done_event
    /\ check_done_event' = TRUE
    /\ note' = NoNote
    /\ ui_exc' = "none"
    /\ UNCHANGED <<csv, tmp_thumb, tracker, was_connected, player, config, sent, icon, rebuilt, pc,
                   exc, probe, cycle, appends, seen, call>>

(* show_current: show_song_info(), then the thumbnail file is removed. *)
ShowCurrent ==
    /\ ~check_done_event
    /\ \E net \in InfoAnswers(type), dl_ok \in BOOLEAN :
         \E r \in {show_song_info(1, csv, type, player_id, tmp_thumb,
                                  notification_timeout, net, dl_ok)} :
             /\ note' = r.note
             /\ ui_exc' = r.exc
             /\ tmp_thumb' = IF r.exc /= "none" THEN r.tmp_thumb ELSE FALSE
    /\ UNCHANGED <<csv, tracker, was_connected, player, check_done_event, config, sent,
                   icon, rebuilt, pc, exc, probe, cycle, appends, seen, call>>

(* play_pause: play_pause_player on the player state of the moment. *)
PlayPause ==
    /\ ~check_done_event
    /\ \E net1 \in SpeedAnswers(-1, player_id), net2 \in SpeedAnswers(-1, player_id) :
         \E r \in {play_pause_player(mediapath, player_id, position, net1, net2)} :
             /\ position' = r.position
             /\ ui_exc' = r.exc
    /\ note' = NoNote
    /\ UNCHANGED <<csv, tmp_thumb, tracker, was_connected, player_id, mediapath, type,
                   check_done_event, config, sent, icon, rebuilt, pc, exc, probe, cycle, appends,
                   seen, call>>

(* The poll loop and quit. *)
Next ==
    \/ Start
    \/ WorkerExit
    \/ Probe
    \/ Fetch
    \/ SavePosition
    \/ Notify
    \/ Wait
    \/ Quit

Spec == Init /\ [][Next]_vars

(* The steps of the worker thread other than the notification. *)
Worker ==
    \/ Start
    \/ WorkerExit
    \/ Probe
    \/ Fetch
    \/ SavePosition
    \/ Wait

(* One configuration and a log left by an earlier run. *)
InitFair ==
    /\ Init
    /\ csv = OldLine
    /\ ~tmp_thumb
    /\ skip_titles /= <<>>
    /\ notification_timeout > 0

(* Weak fairness of Notify, with ENABLED <<Notify>>_vars written out: the  *)
(* step is possible exactly at pc = "notify", where show_song_info returns *)
(* or raises whatever the answers.                                         *)
FairNotify == []<>(pc /= "notify") \/ []<><<Notify>>_vars

(* The poll loop with a worker thread that is scheduled and whose remote   *)
(* calls return: a step of the worker that stays possible is taken.        *)
SpecFair == InitFair /\ [][Next]_vars /\ WF_vars(Worker) /\ FairNotify

(* shut_down, reboot and show_csv: a request is posted (its answer is      *)
(* ignored) or the csv file is opened in the desktop's editor; nothing of  *)
(* the program's state is assigned.                                        *)
MenuCommand ==
    /\ ~check_done_event
    /\ note' = NoNote
    /\ ui_exc' = "none"
    /\ UNCHANGED <<csv, tmp_thumb, tracker, was_connected, player, check_done_event,
                   config, sent, icon, rebuilt, pc, exc, probe, cycle, appends, seen, call>>

(* The poll loop with the menu callbacks of the UI thread. *)
NextUI ==
    \/ Next
    \/ ShowCurrent
    \/ PlayPause
    \/ MenuCommand

(* The menu is up while the worker thread starts: one configuration, the   *)
(* log of an earlier run, fewer cycles.                                    *)
InitUI ==
    /\ Constructed
    /\ csv = OldLine
    /\ tmp_thumb \in BOOLEAN
    /\ skip_titles = <<"X", ",", "S">>
    /\ notification_timeout = 10
    /\ call = NoCall
    /\ limit = MaxUICycles

SpecUI == InitUI /\ [][NextUI]_vars

(***************************************************************************)
(* Requests in flight.  _json_request blocks its caller from the post to   *)
(* the answer (urlopen, kodi.py:332); the worker thread and the menu       *)
(* callbacks of the UI thread call it without a lock.                      *)
(***************************************************************************)

(* Number of poll cycles explored with requests in flight. *)
MaxNetCycles == 3

(* The request the worker waits for first at a position of its cycle. *)
RequestAt(p) ==
    IF p = "fetch" THEN "Player.GetItem" ELSE "Player.GetProperties"

(* The worker has posted the request of its position and waits. *)
WorkerWaits == sent.worker = <<cycle, pc>>

(* The worker posts Player.GetItem (get_playing) or the Player.GetProperties *)
(* of get_playlist_position.                                               *)
WorkerPost ==
    /\ pc \in {"fetch", "position"}
    /\ ~WorkerWaits
    /\ sent' = [sent EXCEPT !.worker = <<cycle, pc>>]
    /\ note' = NoNote
    /\ ui_exc' = "none"
    /\ UNCHANGED <<csv, tmp_thumb, tracker, was_connected, player, check_done_event,
                   config, icon, rebuilt, pc, exc, probe, cycle, appends, seen, call>>

(* The answer to Player.GetItem arrives: the rest of the fetch step. *)
FetchAnswer == WorkerWaits /\ Fetch

(* The answer to the position query arrives. *)
PositionAnswer == WorkerWaits /\ SavePosition

(* The requests of shut_down and reboot. *)
system_shut_down == <<Single([method |-> "System.Shutdown"])>>
system_reboot == <<Single([method |-> "System.Reboot"])>>

(* A menu callback begins and posts its first request: play_pause,         *)
(* shut_down or reboot.                                                    *)
MenuPost ==
    /\ ~check_done_event
    /\ sent.ui.left = <<>>
    /\ \/ \E net1 \in SpeedAnswers(-1, player_id), net2 \in SpeedAnswers(-1, player_id) :
            \E r \in {play_pause_player(mediapath, player_id, position, net1, net2)} :
                /\ r.requests /= <<>>
                /\ sent' = [sent EXCEPT !.ui = [left |-> r.requests,
                                                reset |-> r.position /= position,
                                                exc |-> r.exc,
                                                since |-> cycle]]
       \/ \E reqs \in {system_shut_down, system_reboot} :
            sent' = [sent EXCEPT !.ui = [left |-> reqs, reset |-> FALSE, exc |-> "none",
                                         since |-> cycle]]
    /\ note' = NoNote
    /\ ui_exc' = "none"
    /\ UNCHANGED <<csv, tmp_thumb, tracker, was_connected, player, check_done_event,
                   config, icon, rebuilt, pc, exc, probe, cycle, appends, seen, call>>

(* The answer to the callback's request arrives: the callback posts its    *)
(* next request, or ends; play_pause_player resets the position after its  *)
(* Player.Open.                                                            *)
MenuAnswer ==
    /\ sent.ui.left /= <<>>
    /\ IF Len(sent.ui.left) > 1
       THEN /\ sent' = [sent EXCEPT !.ui.left = Tail(sent.ui.left)]
            /\ ui_exc' = "none"
            /\ position' = position
       ELSE /\ sent' = [sent EXCEPT !.ui = NoCommand]
            /\ ui_exc' = sent.ui.exc
            /\ position' = IF sent.ui.reset THEN -1 ELSE position
    /\ note' = NoNote
    /\ UNCHANGED <<csv, tmp_thumb, tracker, was_connected, player_id, mediapath, type,
                   check_done_event, config, icon, rebuilt, pc, exc, probe, cycle, appends,
                   seen, call>>

(* The poll loop and the menu callbacks, request by request. *)
NextNet ==
    \/ Start
    \/ WorkerExit
    \/ Probe
    \/ WorkerPost
    \/ FetchAnswer
    \/ PositionAnswer
    \/ Notify
    \/ Wait
    \/ Quit
    \/ MenuPost
    \/ MenuAnswer

InitNet ==
    /\ Constructed
    /\ csv = OldLine
    /\ tmp_thumb = FALSE
    /\ skip_titles = <<"X", ",", "S">>
    /\ notification_timeout = 10
    /\ call = NoCall
    /\ limit = MaxNetCycles

SpecNet == InitNet /\ [][NextNet]_vars

(***************************************************************************)
(* Single calls: one function applied to one input                         *)
(***************************************************************************)

(* Longest title given to the radio split. *)
MaxTitleLen == 7

(* Most records in a log that is scanned. *)
MaxRows == 3

(* Largest index given to show_song_info. *)
MaxIndex == 3

(* All the strings of at most n characters of the alphabet. *)
Strings(alphabet, n) == UNION {[1..k -> alphabet] : k \in 0..n}

(* Titles made of a letter and the characters of the separator. *)
SplitTitles == Strings({"A", " ", "-"}, MaxTitleLen)

(* The methods the program requests (kodi.py:339-542). *)
Methods ==
    {"Player.GetActivePlayers", "Player.GetItem", "Files.PrepareDownload",
     "Player.GetProperties", "Player.PlayPause", "Player.Open", "Player.Stop"}

(* The response bodies of a method. *)
MethodBodies(m) ==
    IF m = "Player.GetActivePlayers" THEN PlayersBodies
    ELSE IF m = "Player.GetItem" THEN ItemBodies
    ELSE IF m = "Files.PrepareDownload" THEN {DownloadBody(Thumb1), DownloadBody(Thumb2)}
    ELSE IF m = "Player.GetProperties" THEN {TimesBody, SpeedBody, PositionBody}
    ELSE {[result |-> "OK"]}

(* Every outcome of an exchange: each failure of the transport or of the   *)
(* decoding, a JSON-RPC error response, and each response body.            *)
Outcomes(m) == NetErrors \cup {NetOk(b) : b \in MethodBodies(m) \cup {ErrorBody}}

(* Records as the tracker writes them. *)
Record1 == csv_line(<<"A">>, <<"B">>, <<"X">>, 200, PreparedPath(Thumb1), <<>>)
Record2 == csv_line(<<"B">>, <<"A">>, <<>>, 0, PreparedPath(Thumb2), <<>>)
Record3 == csv_line(<<"E">>, <<>>, <<"X">>, 200, <<>>, <<"S", "0", "1", "E", "0", "2">>)
(* A record whose title opens with a double quote. *)
RecordQuoted == csv_line(<<QUOTE, "A">>, <<"B">>, <<>>, 0, <<>>, <<>>)

PlainRecords == {Record1, Record2, Record3}
Records == PlainRecords \cup {RecordQuoted}

(* The logs of at most n records. *)
RecordLists(n) == UNION {[1..k -> Records] : k \in 0..n}

RECURSIVE concat(_)
concat(lines) == IF lines = <<>> THEN <<>> ELSE Head(lines) \o concat(Tail(lines))

SplitCalls ==
    {[f |-> "radio_split", title |-> t, artist |-> a, done |-> FALSE, ret |-> <<>>] :
        t \in SplitTitles, a \in {<<>>, <<"B">>}}

RequestCalls(m) ==
    {[f |-> "json_request", method |-> m, net |-> n, done |-> FALSE, ret |-> <<>>] :
        n \in Outcomes(m)}

HistoryCalls ==
    {[f |-> "read_csv_data", records |-> l, index |-> i, done |-> FALSE, ret |-> <<>>] :
        l \in RecordLists(MaxRows), i \in 1..MaxIndex}

(* Player.GetActivePlayers bodies for the single call: also a first entry  *)
(* with another id than the second, and an entry without an id.            *)
PlayersCallBodies ==
    PlayersBodies \cup
    { [result |-> <<[playerid |-> 1, type |-> "video"],
                    [playerid |-> 0, type |-> "audio"]>>],
      [result |-> <<[type |-> "audio"]>>] }

PlayerIdCalls ==
    {[f |-> "get_player_id", net |-> n, done |-> FALSE, ret |-> <<>>] :
        n \in NetErrors \cup {NetOk(b) : b \in PlayersCallBodies \cup {ErrorBody}}}

(* A paused player's answer to the speed query. *)
PausedBody == [result |-> [speed |-> 0]]

(* The states in which the play/pause item is activated: the media path,  *)
(* the player id, the saved position, and the answers to the speed query   *)
(* of the toggle and of the label update.                                  *)
PlayPauseCalls ==
    {[f |-> "play_pause_player", path |-> p, pid |-> i, pos |-> q,
      net1 |-> n1, net2 |-> n2, done |-> FALSE, ret |-> <<>>] :
        p \in {<<>>, FilePath, PluginPath}, i \in {-1, 0}, q \in {-1, 0, 1},
        n1 \in Answers({SpeedBody, PausedBody}), n2 \in Answers({SpeedBody})}

(* Rows with fewer than six fields: a line cut after the thumbnail field's  *)
(* separator (five fields), the same with an empty album, and a line cut   *)
(* inside the artist (two fields).                                         *)
RowFive == <<"A", TAB, "B", TAB, "X", TAB, "2", "0", "0", TAB>>
RowFiveNoAlbum == <<"A", TAB, "B", TAB, TAB, "0", TAB>>
RowTwo == <<"A", TAB, "B">>
ShortRows == {RowFive, RowFiveNoAlbum, RowTwo}

(* Logs of complete lines, some of them short, that may end with a row     *)
(* that was written in part.                                               *)
ShortRowLines == PlainRecords \cup {r \o <<NL>> : r \in {RowFive, RowTwo}}
ShortRowLists(n) == UNION {[1..k -> ShortRowLines] : k \in 0..n}

ShowSongInfoCalls ==
    {[f |-> "show_song_info", records |-> l, partial |-> p, index |-> i, dl_ok |-> d,
      done |-> FALSE, ret |-> <<>>] :
        l \in ShortRowLists(MaxRows), p \in ShortRows \cup {<<>>}, i \in 1..MaxIndex,
        d \in BOOLEAN}

(* Longest value of the wait option that is read. *)
MaxWaitLen == 3

(* A wait that is taken from the option without the floor. *)
read_config_wait_no_floor(s) == str_int(s, 10)

(* read_config: self.wait = max(str_int(kodi['wait'], 10), 1) *)
read_config_wait(s) ==
    LET w == str_int(s, 10)
    IN  IF w >= 1 THEN w ELSE 1

(* The values of the wait option: strings of digits, signs, blanks and a   *)
(* letter.                                                                 *)
WaitOptions == Strings({"0", "1", "2", "-", " ", "x"}, MaxWaitLen)

ReadConfigCalls ==
    {[f |-> "read_config", wait |-> s, done |-> FALSE, ret |-> <<>>] : s \in WaitOptions}

(* The item of the example: a song without thumbnail. *)
SongOne == <<"S", "o", "n", "g", " ", "O", "n", "e">>
SongOneItem == SongItem(SongOne, <<<<"B", "a", "n", "d">>>>, <<"A", "l", "b", "u", "m", " ", "A">>, 200, <<>>, FilePath)

(* An item whose title is its artist, with a thumbnail. *)
SelfTitledItem == SongItem(TitleB, <<TitleB>>, <<>>, 0, Thumb1, FilePath)

(* A radio title whose artist part is quoted: "A" - B, without artist. *)
RadioQuotedItem ==
    SongItem(<<QUOTE, "A", QUOTE, " ", "-", " ", "B">>, <<>>, <<QUOTE, "X">>, 0, <<>>,
             PluginPath)

(* An episode that carries a show title and an album. *)
SeriesAlbumItem ==
    [EpisodeItem(TitleE, <<"X">>, 1, 2, <<>>, FilePath) EXCEPT !.album = <<"Y">>]

(* A song whose title opens with a double quote. *)
QuotedTitleItem == SongItem(<<QUOTE, "A">>, <<TitleB>>, <<>>, 0, <<>>, FilePath)

(* One cycle of the tracker on one item: the item, the previous title and  *)
(* thumbnail, and the answers to the requests of the cycle.                *)
TrackCalls ==
    {[f |-> "track", item |-> it, prev |-> p, prev_thumb |-> pt, pid |-> i,
      nett |-> nt, netd |-> nd, done |-> FALSE, ret |-> <<>>] :
        it \in Items \cup {SongOneItem, SelfTitledItem, RadioQuotedItem, SeriesAlbumItem,
                          QuotedTitleItem},
        p \in {<<>>, TitleA},
        pt \in {<<>>, PreparedPath(Thumb2)}, i \in {0, -1},
        nt \in Answers({TimesBody}), nd \in Answers({DownloadBody(Thumb1)})}

(* get_media_times with and without a player, on each outcome of its        *)
(* Player.GetProperties request.                                           *)
MediaTimesCalls ==
    {[f |-> "get_media_times", pid |-> i, net |-> n, done |-> FALSE, ret |-> <<>>] :
        i \in {-1, 0}, n \in Outcomes("Player.GetProperties")}

(* The program as constructed, about to make one call. *)
InitCalls ==
    /\ Constructed
    /\ tmp_thumb = FALSE
    /\ skip_titles = <<>>
    /\ notification_timeout = 10
    /\ limit = MaxCycles
    /\ \/ /\ call \in SplitCalls
          /\ csv = <<>>
       \/ /\ \E m \in Methods : call \in RequestCalls(m)
          /\ csv = <<>>
       \/ /\ call \in HistoryCalls
          /\ csv = concat(call.records)
       \/ /\ call \in PlayerIdCalls
          /\ csv = <<>>
       \/ /\ call \in PlayPauseCalls
          /\ csv = <<>>
       \/ /\ call \in ReadConfigCalls
          /\ csv = <<>>
       \/ /\ call \in TrackCalls
          /\ csv = <<>>
       \/ /\ call \in MediaTimesCalls
          /\ csv = <<>>
       \/ /\ call \in ShowSongInfoCalls
          /\ csv = concat(call.records) \o call.partial

(* The radio split of _run_check on one title and artist. *)
RadioSplitCall ==
    /\ call.f = "radio_split"
    /\ ~call.done
    /\ call' = [call EXCEPT !.done = TRUE, !.ret = radio_split(call.title, call.artist)]
    /\ UNCHANGED <<csv, tmp_thumb, tracker, was_connected, player, check_done_event,
                   config, sent, icon, rebuilt, pc, exc, ui_exc, note, probe, cycle, appends, seen>>

(* _json_request on one outcome of the exchange. *)
JsonRequestCall ==
    /\ call.f = "json_request"
    /\ ~call.done
    /\ call' = [call EXCEPT !.done = TRUE, !.ret = json_request(call.net)]
    /\ UNCHANGED <<csv, tmp_thumb, tracker, was_connected, player, check_done_event,
                   config, sent, icon, rebuilt, pc, exc, ui_exc, note, probe, cycle, appends, seen>>

(* The reverse scan of show_song_info on the csv file. *)
ReadCsvDataCall ==
    /\ call.f = "read_csv_data"
    /\ ~call.done
    /\ call' = [call EXCEPT !.done = TRUE, !.ret = read_csv_data(csv, call.index)]
    /\ UNCHANGED <<csv, tmp_thumb, tracker, was_connected, player, check_done_event,
                   config, sent, icon, rebuilt, pc, exc, ui_exc, note, probe, cycle, appends, seen>>

(* _get_player_id on one outcome of its request. *)
GetPlayerIdCall ==
    /\ call.f = "get_player_id"
    /\ ~call.done
    /\ call' = [call EXCEPT !.done = TRUE, !.ret = get_player_id(call.net)]
    /\ UNCHANGED <<csv, tmp_thumb, tracker, was_connected, player, check_done_event,
                   config, sent, icon, rebuilt, pc, exc, ui_exc, note, probe, cycle, appends, seen>>

(* play_pause_player in one state of the player. *)
PlayPauseCall ==
    /\ call.f = "play_pause_player"
    /\ ~call.done
    /\ call' = [call EXCEPT !.done = TRUE,
                            !.ret = play_pause_player(call.path, call.pid, call.pos,
                                                      call.net1, call.net2)]
    /\ UNCHANGED <<csv, tmp_thumb, tracker, was_connected, player, check_done_event,
                   config, sent, icon, rebuilt, pc, exc, ui_exc, note, probe, cycle, appends, seen>>

(* show_song_info(index) on the csv file while a song is the item.         *)
ShowSongInfoCall ==
    /\ call.f = "show_song_info"
    /\ ~call.done
    /\ call' = [call EXCEPT !.done = TRUE,
                            !.ret = show_song_info(call.index, csv, "song", player_id,
                                                   tmp_thumb, notification_timeout,
                                                   NetOk(TimesBody), call.dl_ok)]
    /\ UNCHANGED <<csv, tmp_thumb, tracker, was_connected, player, check_done_event,
                   config, sent, icon, rebuilt, pc, exc, ui_exc, note, probe, cycle, appends, seen>>

(* read_config on one value of the wait option. *)
ReadConfigCall ==
    /\ call.f = "read_config"
    /\ ~call.done
    /\ call' = [call EXCEPT !.done = TRUE, !.ret = PyInt(read_config_wait(call.wait))]
    /\ UNCHANGED <<csv, tmp_thumb, tracker, was_connected, player, check_done_event,
                   config, sent, icon, rebuilt, pc, exc, ui_exc, note, probe, cycle, appends, seen>>

(* The tracker of _run_check on one fetched item, with the skip patterns X *)
(* and SA; self.player_id as get_media_times finds it.                     *)
TrackCall ==
    /\ call.f = "track"
    /\ ~call.done
    /\ call' = [call EXCEPT !.done = TRUE,
                            !.ret = track(call.item, call.prev, call.prev_thumb,
                                          <<"X", ",", "S", "A">>, call.pid, call.nett,
                                          call.netd)]
    /\ UNCHANGED <<csv, tmp_thumb, tracker, was_connected, player, check_done_event,
                   config, sent, icon, rebuilt, pc, exc, ui_exc, note, probe, cycle, appends, seen>>

(* get_media_times on one outcome of its request. *)
GetMediaTimesCall ==
    /\ call.f = "get_media_times"
    /\ ~call.done
    /\ call' = [call EXCEPT !.done = TRUE, !.ret = get_media_times(call.pid, call.net)]
    /\ UNCHANGED <<csv, tmp_thumb, tracker, was_connected, player, check_done_event,
                   config, sent, icon, rebuilt, pc, exc, ui_exc, note, probe, cycle,
                   appends, seen>>

NextCalls ==
    \/ RadioSplitCall
    \/ JsonRequestCall
    \/ ReadCsvDataCall
    \/ GetPlayerIdCall
    \/ PlayPauseCall
    \/ ShowSongInfoCall
    \/ GetMediaTimesCall
    \/ TrackCall
    \/ ReadConfigCall

SpecCalls == InitCalls /\ [][NextCalls]_vars
(***************************************************************************)
(* Properties of the poll loop (Spec)                                      *)
(***************************************************************************)

(* The newest observation and the one before it. *)
Newest(s) == s[Len(s)]
Before(s) == s[Len(s) - 1]

(* The step is a cycle that got an item. *)
Reports == seen' /= seen

(* The fields of a line of the csv file. *)
LineFields(line) == split(SubSeq(line, 1, Len(line) - 1), <<TAB>>)

(* The log ends with the line. *)
EndsWith(text, line) ==
    /\ Len(line) <= Len(text)
    /\ SubSeq(text, Len(text) - Len(line) + 1, Len(text)) = line

(* The observation has a title that is not skipped. *)
NotSkipped(o) == ~o.skip /\ o.title /= <<>>

(* Not skipped, and the title is not the artist. *)
Acceptable(o) == NotSkipped(o) /\ o.title /= o.artist

(* The step appends exactly the line of the newest observation, a record   *)
(* of its title.                                                           *)
AppendsRecord ==
    /\ Newest(seen').line /= <<>>
    /\ csv' = csv \o Newest(seen').line
    /\ appends' = appends + 1
    /\ LineFields(Newest(seen').line)[1] = Newest(seen').title

AppendsNothing == csv' = csv /\ appends' = appends

(* C1 (P1): over cycles that report the same title, not skipped and not    *)
(* equal to the artist, one record is appended on the first of them and    *)
(* none on a later one.  The first cycle of such a run is the first report *)
(* of the loop or follows a report of another title that was not skipped.  *)
C1_OneRecordPerTitle ==
    [][Reports /\ Acceptable(Newest(seen')) =>
         /\ (seen = <<>> \/ (NotSkipped(Newest(seen))
                             /\ Newest(seen).title /= Newest(seen').title))
               => AppendsRecord
         /\ (seen /= <<>> /\ Acceptable(Newest(seen))
             /\ Newest(seen).title = Newest(seen').title)
               => AppendsNothing]_vars

(* Two reports of one title in a row: the first logged, the second not. *)
C1_Witness ==
    /\ Len(seen) >= 2
    /\ Acceptable(Before(seen))
    /\ Acceptable(Newest(seen))
    /\ Before(seen).title = Newest(seen).title
    /\ Before(seen).line /= <<>>
    /\ Newest(seen).line = <<>>
    /\ appends = 1

(* The reports A, SKIP, B as the last three: A and B not skipped, A new to *)
(* the tracker, SKIP matched by a pattern, and B another title than A.     *)
SequenceASkipB ==
    /\ Reports
    /\ Len(seen) >= 2
    /\ NotSkipped(Before(seen))
    /\ Before(seen).title /= Before(seen).prev
    /\ Newest(seen).skip
    /\ NotSkipped(Newest(seen'))
    /\ Newest(seen').title /= Before(seen).title

(* The log holds the record of A as its last, nothing of SKIP after it,    *)
(* and the step appends the record of B.                                   *)
RecordsForAAndB ==
    /\ Before(seen).line /= <<>>
    /\ LineFields(Before(seen).line)[1] = Before(seen).title
    /\ EndsWith(csv, Before(seen).line)
    /\ Newest(seen).line = <<>>
    /\ AppendsRecord

(* C2 (P2) as stated: titles A /= B that are not skipped and a title SKIP  *)
(* that matches a skip pattern; polling A, SKIP, B appends a record for A  *)
(* and a record for B and none for SKIP.                                   *)
C2_AsStated == [][SequenceASkipB => RecordsForAAndB]_vars

(* C2 (P2) amended: the same for titles A and B that each differ from      *)
(* their artist.                                                           *)
C2_SkipInvisible ==
    [][SequenceASkipB /\ Acceptable(Before(seen)) /\ Acceptable(Newest(seen'))
         => RecordsForAAndB]_vars

(* After A, SKIP, B: two records, the last of B, and the tracker had kept  *)
(* A as the previous title across the skipped cycle.                       *)
C2_Witness ==
    /\ Len(seen) >= 2
    /\ Before(seen).skip
    /\ Acceptable(Newest(seen))
    /\ Newest(seen).prev /= <<>>
    /\ Newest(seen).prev /= Newest(seen).title
    /\ Newest(seen).prev = Before(seen).prev
    /\ Newest(seen).line /= <<>>
    /\ EndsWith(csv, Newest(seen).line)
    /\ appends = 2

(* C3 (P4): a cycle whose title equals the artist after the radio split    *)
(* appends no record, also when the title differs from the previous one.   *)
C3_TitleIsArtist ==
    [][Reports /\ Newest(seen').title = Newest(seen').artist => AppendsNothing]_vars

(* A new title that equals the artist was reported and the log is empty. *)
C3_Witness ==
    /\ seen /= <<>>
    /\ NotSkipped(Newest(seen))
    /\ Newest(seen).title = Newest(seen).artist
    /\ Newest(seen).title /= Newest(seen).prev
    /\ Newest(seen).line = <<>>
    /\ pc = "wait"
    /\ csv = <<>>

(* C4 (P5): the item has a thumbnail whose resolution fails in this cycle  *)
(* and succeeded in the cycle reported before: the record appended carries *)
(* the URL resolved then, not an empty field.                              *)
C4_StaleThumbnail ==
    [][/\ Reports
       /\ seen /= <<>>
       /\ Newest(seen).thumb = "ok"
       /\ Newest(seen').thumb = "fail"
       /\ Newest(seen').line /= <<>>
       => /\ AppendsRecord
          /\ Newest(seen).url /= <<>>
          /\ LineFields(Newest(seen').line)[5] = Newest(seen).url]_vars

(* A record was appended in a cycle whose resolution failed after one that *)
(* succeeded.                                                              *)
C4_Witness ==
    /\ Len(seen) >= 2
    /\ Before(seen).thumb = "ok"
    /\ Newest(seen).thumb = "fail"
    /\ Newest(seen).line /= <<>>
    /\ EndsWith(csv, Newest(seen).line)
    /\ LineFields(Newest(seen).line)[5] = Before(seen).url

(* The number of lines of a text. *)
LineCount(text) == Cardinality({k \in 1..Len(text) : text[k] = NL})

(* C6 (P7): once the poll loop has started the log is empty until the      *)
(* first append, and after the first accepted song it holds exactly the    *)
(* record of that song, whatever the file held before.                     *)
C6_LogReset ==
    pc /= "start" =>
      /\ appends = 0 => csv = <<>>
      /\ appends = 1 => LineCount(csv) = 1
      /\ (appends = 1 /\ seen /= <<>> /\ Newest(seen).line /= <<>>)
            => csv = Newest(seen).line

(* The first song was accepted and its record is the whole log. *)
C6_Witness ==
    /\ appends = 1
    /\ pc = "position"
    /\ csv = Newest(seen).line
    /\ LineFields(csv)[1] = title

(* C8: whatever remote call fails, the worker thread does not end with an  *)
(* exception: the cycle reaches the wait.                                  *)
C8_WorkerSurvives == pc /= "dead"

(* C10: the 'unable to connect' notification is shown in a cycle exactly   *)
(* when the probe fails in that cycle and succeeded in the most recent     *)
(* earlier cycle.                                                          *)
C10_UnableOncePerLoss ==
    [][(note' = UnableNote) <=> (cycle' /= cycle /\ probe' = "down" /\ probe = "up")]_vars

(* The notification is shown by a failed probe after a connected cycle. *)
C10_Witness ==
    /\ note = UnableNote
    /\ probe = "down"
    /\ ~was_connected
    /\ cycle >= 2

(* The patterns of the configuration. *)
Patterns ==
    LET arr == split(skip_titles, <<",">>)
    IN  {arr[k] : k \in 1..Len(arr)}

(* Some configured pattern is a substring of the title. *)
MatchesPattern(t) == \E p \in Patterns : Contains(p, t)

(* C11: a cycle whose title, as it stands after the radio split, contains  *)
(* a configured skip pattern is discarded: no record is appended, and the  *)
(* cycle goes to the wait without showing a new-song notification.         *)
C11_SkipDiscards ==
    [][Reports /\ MatchesPattern(Newest(seen').title)
         => AppendsNothing /\ pc' = "wait" /\ note' = NoNote]_vars

(* A new title matched by the second pattern was reported and discarded. *)
C11_Witness ==
    /\ seen /= <<>>
    /\ skip_titles = <<"X", ",", "S">>
    /\ Newest(seen).title = TitleSkip
    /\ Newest(seen).title /= Newest(seen).prev
    /\ Newest(seen).title /= Newest(seen).artist
    /\ MatchesPattern(Newest(seen).title)
    /\ pc = "wait"
    /\ csv = <<>>

(* The worker thread has ended. *)
Terminated == pc \in {"done", "dead"}

(* C13: once quit has set the event the worker starts no new poll cycle,   *)
(* so no probe and no append of a cycle begun after the set, and, its      *)
(* remote calls returning, the thread ends.                                *)
C13_Cancellation ==
    /\ [][check_done_event => cycle' = cycle]_vars
    /\ check_done_event ~> Terminated

(* Quit came in the middle of a cycle and the thread has left the loop at  *)
(* the next check of the event.                                            *)
C13_Witness ==
    /\ check_done_event
    /\ pc = "done"
    /\ cycle >= 1
    /\ appends >= 1

(* C14: a cycle whose title matches a skip pattern leaves prev_title,      *)
(* prev_thumbnail_path and the log as they were, and the title of the next *)
(* report is compared with the title kept from before the skipped cycle.   *)
C14_SkipKeepsTracker ==
    [][Reports =>
         /\ MatchesPattern(Newest(seen').title)
               => /\ prev_title' = prev_title
                  /\ prev_thumbnail_path' = prev_thumbnail_path
                  /\ csv' = csv
         /\ (seen /= <<>> /\ MatchesPattern(Newest(seen).title))
               => Newest(seen').prev = Newest(seen).prev]_vars

(* A song with a thumbnail was logged, then a title was skipped: the       *)
(* tracker still holds the song's title and thumbnail path.                *)
C14_Witness ==
    /\ Len(seen) >= 2
    /\ skip_titles /= <<>>
    /\ Before(seen).line /= <<>>
    /\ Before(seen).thumb = "ok"
    /\ MatchesPattern(Newest(seen).title)
    /\ prev_title = Before(seen).title
    /\ prev_thumbnail_path = Before(seen).url
    /\ csv = Before(seen).line
    /\ pc = "wait"

(* C15: the log changes after the start only by an append in a cycle whose *)
(* title is not empty, differs from prev_title and differs from the        *)
(* artist; no other step of a cycle changes it.                            *)
C15_AppendOnlyIfNew ==
    [][(csv' /= csv /\ pc /= "start") =>
         /\ Reports
         /\ AppendsRecord
         /\ Newest(seen').title /= <<>>
         /\ Newest(seen').title /= prev_title
         /\ Newest(seen').title /= Newest(seen').artist]_vars

(* A second song, new and not its own artist, has just been appended. *)
C15_Witness ==
    /\ pc = "position"
    /\ appends = 2
    /\ Newest(seen).line /= <<>>
    /\ EndsWith(csv, Newest(seen).line)
    /\ Newest(seen).title /= prev_title
    /\ prev_title /= <<>>
    /\ Newest(seen).title /= Newest(seen).artist

(* C21: with show_notification set to 0 no step of the program shows a     *)
(* notification: not an accepted song, not the lost connection.            *)
C21_ZeroDisables == notification_timeout = 0 => note = NoNote

(* C24: in a cycle with a player whose item fetch fails or gives an empty  *)
(* title, nothing changes: no record is appended, the previous title and   *)
(* thumbnail stay, no exception escapes and the worker goes on to the      *)
(* wait.                                                                   *)
C24_FailedFetchIsNoChange ==
    [][(pc = "fetch" /\ pc' /= "fetch" /\ ~Reports) =>
          /\ pc' = "wait"
          /\ exc' = "none"
          /\ csv' = csv
          /\ prev_title' = prev_title
          /\ prev_thumbnail_path' = prev_thumbnail_path]_vars

(* C25: the previous title changes only in a cycle that appends a record;  *)
(* a cycle rejected because the title equals the artist leaves it as it    *)
(* was.                                                                    *)
C25_PrevTitleOnAcceptance ==
    [][prev_title' /= prev_title =>
          /\ seen' /= <<>>
          /\ Newest(seen').cycle = cycle'
          /\ Newest(seen').line /= <<>>]_vars

(* The order of the worker's steps: the probe and the player query at the  *)
(* top of a cycle, then the item fetch with its append, the position and   *)
(* the notification of an accepted item, then the wait, then the next top. *)
WorkerOrder ==
    { <<"start", "top">>, <<"top", "fetch">>, <<"top", "wait">>, <<"top", "done">>,
      <<"top", "dead">>, <<"fetch", "position">>, <<"fetch", "wait">>,
      <<"fetch", "dead">>, <<"position", "notify">>, <<"position", "dead">>,
      <<"notify", "wait">>, <<"notify", "dead">>, <<"wait", "top">> }

(* C27: a cycle runs in the order probe, player query, item fetch,         *)
(* possible append, wait, and a cycle starts only after the wait of the    *)
(* one before; a cycle whose probe fails or that finds no player fetches   *)
(* no item and appends nothing.                                            *)
C27_CycleOrder ==
    [][/\ pc' /= pc => <<pc, pc'>> \in WorkerOrder
       /\ cycle' /= cycle => (pc = "top" /\ cycle' = cycle + 1 /\ probe' \in {"up", "down"})
       /\ (Reports \/ appends' /= appends) => pc = "fetch"
       /\ (cycle' /= cycle /\ (probe' = "down" \/ player_id' < 0)) =>
              (pc' = "wait" /\ AppendsNothing /\ ~Reports)]_vars

(* A cycle without player has followed a cycle that appended a record. *)
C27_Witness ==
    /\ pc = "wait"
    /\ probe = "up"
    /\ player_id < 0
    /\ appends >= 1
    /\ cycle >= 2

(* Some non-empty configured pattern is a substring of the title. *)
MatchesNonEmptyPattern(t) == \E p \in Patterns : p /= <<>> /\ Contains(p, t)

(* C34: an empty skip configuration, or an empty entry in it, skips        *)
(* nothing: a title is skipped only if a non-empty pattern is a substring  *)
(* of it, so a new title that matches none is logged.                      *)
C34_EmptySkipsNothing ==
    [][(/\ Reports
        /\ ~MatchesNonEmptyPattern(Newest(seen').title)
        /\ Newest(seen').title /= <<>>
        /\ Newest(seen').title /= Newest(seen').prev
        /\ Newest(seen').title /= Newest(seen').artist)
          => ~Newest(seen').skip /\ appends' = appends + 1]_vars

(* The titles of the records of the log, in file order. *)
LogTitles(text) ==
    LET lines == split(text, <<NL>>)
    IN  [k \in 1..(Len(lines) - 1) |-> split(lines[k], <<TAB>>)[1]]

(* C35: no two consecutive records of the log have the same title,         *)
(* whatever the items reported, those rejected because the title is the    *)
(* artist included.                                                        *)
C35_NoRepeatedTitle ==
    pc /= "start" =>
        \A k \in 1..(Len(LogTitles(csv)) - 1) : LogTitles(csv)[k] /= LogTitles(csv)[k + 1]

(* The worker is between two cycles: at the loop test or in the wait. *)
CycleBoundary == pc \in {"top", "wait"}

(* C36: at every cycle boundary, when the connection is recorded as lost    *)
(* (was_connected is false) the player id is -1: no player id of a         *)
(* connected cycle survives the loss.                                      *)
C36_NoStalePlayer == (CycleBoundary /\ ~was_connected) => player_id = -1

(* The connection was lost after a cycle that had a player. *)
C36_Witness ==
    /\ pc = "wait"
    /\ probe = "down"
    /\ ~was_connected
    /\ seen /= <<>>
    /\ player_id = -1
    /\ icon = "grey"

(* The icon shown agrees with the player id. *)
IconAgrees ==
    /\ icon = "normal" <=> player_id >= 0
    /\ icon = "grey" <=> player_id < 0

(* C37: at every cycle boundary the normal icon is shown iff there is a    *)
(* player and the grey icon iff there is none; and a connected cycle       *)
(* builds the menu anew iff the player id it obtained differs from the one *)
(* of the cycle before.                                                    *)
C37_IconAndMenu ==
    [][/\ CycleBoundary' => IconAgrees'
       /\ (cycle' /= cycle /\ probe' = "up") => (rebuilt' <=> player_id' /= player_id)]_vars

(* A connected cycle found the player of the cycle before and left the     *)
(* menu as it was.                                                         *)
C37_Witness ==
    /\ pc = "wait"
    /\ probe = "up"
    /\ cycle >= 2
    /\ player_id >= 0
    /\ icon = "normal"
    /\ ~rebuilt

(* C39: a cycle in which the host is unreachable or no player is active    *)
(* leaves the previous title, the previous thumbnail url and the log as    *)
(* they were; so a title logged before such cycles is not logged again     *)
(* when it is still the title afterwards.                                  *)
C39_HistorySurvivesGaps ==
    [][/\ (cycle' /= cycle /\ (probe' = "down" \/ player_id' < 0)) =>
            UNCHANGED <<prev_title, prev_thumbnail_path, csv, appends>>
       /\ (/\ Reports
           /\ seen /= <<>>
           /\ Newest(seen).title = prev_title
           /\ Newest(seen').title = Newest(seen).title
           /\ Newest(seen').cycle > Newest(seen).cycle + 1) => AppendsNothing]_vars

(* A song was logged, a cycle without host or player followed, and the     *)
(* same title was reported again and not logged.                           *)
C39_Witness ==
    /\ Len(seen) = 2
    /\ Before(seen).line /= <<>>
    /\ Newest(seen).title = Before(seen).title
    /\ Newest(seen).cycle > Before(seen).cycle + 1
    /\ Newest(seen).line = <<>>
    /\ appends = 1
    /\ pc = "wait"

(***************************************************************************)
(* Properties of the poll loop with the menu callbacks (SpecUI)            *)
(***************************************************************************)

(* The text begins with the other. *)
IsPrefix(p, text) == Len(p) <= Len(text) /\ SubSeq(text, 1, Len(p)) = p

(* C16: after the truncation at the start of the poll loop every step, of  *)
(* the worker or of a menu callback, leaves the log an extension of what   *)
(* it was: nothing is removed, reordered or rewritten.                     *)
C16_AppendOnly == [][pc /= "start" => IsPrefix(csv, csv')]_vars

(* Two songs were logged one after the other and a menu callback has read  *)
(* the log since.                                                          *)
C16_Witness ==
    /\ appends = 2
    /\ LineCount(csv) = 2
    /\ EndsWith(csv, Newest(seen).line)
    /\ IsPrefix(Before(seen).line, csv)
    /\ pc = "position"
    /\ note /= NoNote

(* The last line of a text that ends with a newline. *)
RECURSIVE LastLine(_)
LastLine(text) ==
    IF \E k \in 1..(Len(text) - 1) : text[k] = NL
    THEN LastLine(Tail(text))
    ELSE text

C29_SingleWriter ==
    [][pc' = pc => UNCHANGED <<player_id, prev_title, prev_thumbnail_path>>]_vars

(* A menu callback has shown the current song between two cycles, with a   *)
(* player, a previous title and a previous thumbnail.                      *)
C29_Witness ==
    /\ pc = "top"
    /\ note.kind = "song"
    /\ player_id >= 0
    /\ prev_title /= <<>>
    /\ prev_thumbnail_path /= <<>>

(***************************************************************************)
(* Properties of the requests in flight (SpecNet)                          *)
(***************************************************************************)

(* The number of requests posted and not yet answered. *)
Outstanding ==
    (IF WorkerWaits THEN 1 ELSE 0) + (IF sent.ui.left /= <<>> THEN 1 ELSE 0)

(* C28: at most one request to the remote host is outstanding, under every *)
(* interleaving of the poll cycle with the menu callbacks.                 *)
C28_OneOutstanding == Outstanding <= 1

(* The worker has saved the playlist position in a cycle that began after  *)
(* the menu callback under way did, and goes on.                           *)
SavedSincePost ==
    /\ Len(sent.worker) = 2
    /\ sent.worker[2] = "position"
    /\ sent.worker[1] > sent.ui.since
    /\ ~WorkerWaits
    /\ pc /= "dead"
    /\ position >= 0

(* C40: the saved playlist position is not lost to a race: when a          *)
(* play/pause that resumes from the saved position and resets it ends      *)
(* after the worker has saved a position since the resume request was      *)
(* posted, the position is still >= 0.                                     *)
C40_SavedPositionKept ==
    [][(sent.ui.left /= <<>> /\ sent'.ui.left = <<>> /\ SavedSincePost) =>
          position' >= 0]_vars

(***************************************************************************)
(* Properties of single calls (SpecCalls)                                  *)
(***************************************************************************)

(* The call of f has returned. *)
Returned(f) == call.f = f /\ call.done

(* The log of the call holds only records without quotes. *)
PlainLog == \A k \in 1..Len(call.records) : call.records[k] \in PlainRecords

(* The fields of the j-th record of the log, in append order. *)
Row(j) == LineFields(call.records[j])

(* C5 (P6) as stated: with the log [R1, R2, R3] the lookup is limited to   *)
(* the requested count: for 1 it gives [R3], for 2 it gives [R3, R2].      *)
C5_AsStated ==
    (Returned("read_csv_data") /\ PlainLog /\ Len(call.records) = 3) =>
      /\ call.index = 1 => call.ret = <<Row(3)>>
      /\ call.index = 2 => call.ret = <<Row(3), Row(2)>>

(* C5 (P6) amended: the lookup is given a position, not a count.  For the  *)
(* index k and a log of n records it gives, newest first, the k-th record  *)
(* from the end and the one before it: both when k < n, the oldest alone   *)
(* when k = n, nothing when k > n.                                         *)
C5_HistoryByIndex ==
    (Returned("read_csv_data") /\ PlainLog) =>
      LET n == Len(call.records)
          k == call.index
      IN  call.ret = IF k > n THEN <<>>
                     ELSE IF k = n THEN <<Row(1)>>
                     ELSE <<Row(n + 1 - k), Row(n - k)>>

(* The scan of [R1, R2, R3] for the index 2 gave [R2, R1]. *)
C5_Witness ==
    /\ Returned("read_csv_data")
    /\ call.records = <<Record1, Record2, Record3>>
    /\ call.index = 2
    /\ call.ret = <<Row(2), Row(1)>>
    /\ Len(Row(2)) = 6

(* The indexes at which the separator occurs in the title. *)
Occurrences(t) == {i \in 1..Len(t) : StartsAt(t, RADIO_SEP, i)}

(* The first occurrence of the separator. *)
FirstOccurrence(t) == CHOOSE i \in Occurrences(t) : \A j \in Occurrences(t) : i <= j

(* The title splits in two: the separator occurs, and not again after its  *)
(* first occurrence.                                                       *)
TwoParts(t) ==
    /\ Occurrences(t) /= {}
    /\ \A j \in Occurrences(t) : j < FirstOccurrence(t) + Len(RADIO_SEP)

(* C7 (P3): with an empty artist and a title that splits on ' - ' in two,  *)
(* the part before becomes the artist and the part after the title; with   *)
(* an artist, or any other number of parts, both are left as they are.     *)
C7_RadioSplit ==
    Returned("radio_split") =>
      IF call.artist = <<>> /\ TwoParts(call.title)
      THEN /\ call.ret.artist = SubSeq(call.title, 1, FirstOccurrence(call.title) - 1)
           /\ call.ret.title = SubSeq(call.title,
                                      FirstOccurrence(call.title) + Len(RADIO_SEP),
                                      Len(call.title))
           /\ call.ret.artist \o RADIO_SEP \o call.ret.title = call.title
      ELSE /\ call.ret.artist = call.artist
           /\ call.ret.title = call.title

(* A title with one separator and no artist was split. *)
C7_Witness ==
    /\ Returned("radio_split")
    /\ call.artist = <<>>
    /\ call.title = <<"A", "-", " ", "-", " ", "A">>
    /\ call.ret = [title |-> <<"A">>, artist |-> <<"A", "-">>]

(* C9: _json_request never raises: it returns '' on a transport, timeout   *)
(* or decode error, and the parsed response otherwise.                     *)
C9_NeverRaises ==
    Returned("json_request") =>
      /\ call.ret.exc = "none"
      /\ IF call.net.kind \in TransportErrors
         THEN call.ret.val = Failure
         ELSE call.ret.val = call.net.body

(* A request that timed out returned ''. *)
C9_Witness ==
    /\ Returned("json_request")
    /\ call.net.kind = "timeout"
    /\ call.method = "Player.GetItem"
    /\ call.ret = Ret(Failure)
(* The response lists at least one player and the first has an id. *)
FirstPlayerKnown(net) ==
    /\ net.kind = "ok"
    /\ "result" \in DOMAIN net.body
    /\ net.body.result /= <<>>
    /\ "playerid" \in DOMAIN Head(net.body.result)

(* C12: _get_player_id never raises; it returns the id of the first entry  *)
(* of the active-players result, and -1 when the result is empty, the      *)
(* request failed or the response has no such entry.                       *)
C12_FirstPlayerOrMinusOne ==
    Returned("get_player_id") =>
      /\ call.ret.exc = "none"
      /\ call.ret.val = IF FirstPlayerKnown(call.net)
                        THEN Head(call.net.body.result).playerid
                        ELSE -1

(* Of two players the id of the first was returned. *)
C12_Witness ==
    /\ Returned("get_player_id")
    /\ call.net.kind = "ok"
    /\ "result" \in DOMAIN call.net.body
    /\ Len(call.net.body.result) = 2
    /\ call.net.body.result[2].playerid = 0
    /\ call.ret = Ret(1)
(* Some posted request, alone or in a batch, has method m. *)
Posts(reqs, m) == \E k \in 1..Len(reqs) : \E j \in 1..Len(reqs[k].calls) : reqs[k].calls[j].method = m

(* The requests that are not the speed query of _is_playing. *)
Commands(reqs) == SelectSeq(reqs, LAMBDA r : r.calls[1].method /= "Player.GetProperties")

(* The toggle of a finished play/pause call found the player playing.      *)
TogglePlaying == is_playing(call.pid, call.net1) = Ret(TRUE)
ToggleStopped == is_playing(call.pid, call.net1) = Ret(FALSE)

(* C18: with a media path that contains 'plugin://', play/pause never      *)
(* posts Player.PlayPause; when the speed query says playing it posts      *)
(* Player.Stop and nothing else; when it says not playing it posts one     *)
(* batched request with Playlist.Clear, Playlist.Add of the media path and *)
(* Player.Open at position 0, in that order.                               *)
C18_PluginToggle ==
    (call.f = "play_pause_player" /\ call.done /\ Contains(PLUGIN, call.path)) =>
        /\ ~Posts(call.ret.requests, "Player.PlayPause")
        /\ TogglePlaying =>
             Commands(call.ret.requests) = <<Single([method |-> "Player.Stop", playerid |-> call.pid])>>
        /\ ToggleStopped =>
             Commands(call.ret.requests) =
                 <<Batch(<<[method |-> "Playlist.Clear", playlistid |-> 0],
                           [method |-> "Playlist.Add", playlistid |-> 0, file |-> call.path],
                           [method |-> "Player.Open", playlistid |-> 0, position |-> 0]>>)>>

(* Both branches of the plugin toggle have been taken. *)
C18_Witness ==
    /\ call.f = "play_pause_player" /\ call.done /\ Contains(PLUGIN, call.path)
    /\ ToggleStopped
    /\ call.pid >= 0
    /\ Len(Commands(call.ret.requests)) = 1
    /\ Commands(call.ret.requests)[1].batch

(* C19: with a media path without 'plugin://' and no active player,        *)
(* play/pause with a saved position posts Player.Open at that position of  *)
(* playlist 0 and resets the position to -1; without a saved position it   *)
(* posts nothing and changes nothing.                                      *)
C19_ResumeSaved ==
    (call.f = "play_pause_player" /\ call.done /\ ~Contains(PLUGIN, call.path) /\ call.pid < 0) =>
        IF call.pos >= 0
        THEN /\ call.ret.requests =
                    <<Single([method |-> "Player.Open", playlistid |-> 0, position |-> call.pos])>>
             /\ call.ret.position = -1
        ELSE /\ call.ret.requests = <<>>
             /\ call.ret.position = call.pos
             /\ call.ret.exc = "none"

(* A saved position has been resumed. *)
C19_Witness ==
    /\ call.f = "play_pause_player" /\ call.done /\ ~Contains(PLUGIN, call.path)
    /\ call.pid < 0 /\ call.pos = 1
    /\ call.ret.position = -1
    /\ Len(call.ret.requests) = 1
(* C20: a history read over a log with rows of fewer than six fields, a    *)
(* row of exactly five fields and a row written in part among them, skips  *)
(* those rows and completes without raising (the download succeeding).     *)
C20_ShortRowsSkipped ==
    (call.f = "show_song_info" /\ call.done /\ call.dl_ok) =>
        /\ call.ret.exc = "none"
        /\ \A k \in 1..Len(call.ret.csv_data) : Len(call.ret.csv_data[k]) >= 6

(* What the code does with short rows: rows of fewer than five fields are  *)
(* skipped; the read raises IndexError exactly when the row it selects has *)
(* five fields.                                                            *)
ShortRowsBehaviour ==
    (call.f = "show_song_info" /\ call.done /\ call.dl_ok) =>
        /\ \A k \in 1..Len(call.ret.csv_data) : Len(call.ret.csv_data[k]) >= 5
        /\ call.ret.exc \in {"none", "IndexError"}
        /\ call.ret.exc = "IndexError" <=>
             (call.ret.csv_data /= <<>> /\ Len(call.ret.csv_data[1]) = 5)
(* C22: after read_config the wait between cycles is an integer of at     *)
(* least 1: 1 for an option below 1, the default 10 for an option that is  *)
(* not an integer, the option's value otherwise.                           *)
C22_WaitFloor ==
    (call.f = "read_config" /\ call.done) =>
        /\ call.ret.py = "int"
        /\ call.ret.v >= 1
        /\ call.ret.v = IF ~int_ok(call.wait) THEN 10
                        ELSE IF int_value(call.wait) < 1 THEN 1
                        ELSE int_value(call.wait)

(* An option below 1 has been read. *)
C22_Witness ==
    /\ call.f = "read_config" /\ call.done
    /\ int_ok(call.wait) /\ int_value(call.wait) < 0
    /\ call.ret.v = 1
(* C23: an accepted item (its strings without tab or line break) is        *)
(* written as one line of six tab-separated fields: title, artist, album   *)
(* or series, duration, thumbnail url, episode tag; without thumbnail and  *)
(* without season and episode the last two fields are empty, as in         *)
(* 'Song One<TAB>Band<TAB>Album A<TAB>200<TAB><TAB>'.                      *)
C23_RecordLayout ==
    (call.f = "track" /\ call.done /\ call.ret.accepted) =>
        LET line == call.ret.line
            f == LineFields(line)
        IN  /\ LineCount(line) = 1 /\ line[Len(line)] = NL
            /\ f = << call.ret.title, call.ret.artist, resolve_album(call.item),
                      int_str(resolve_duration(call.item, call.pid, call.nett)),
                      call.ret.thumbnail_path, resolve_season_episode(call.item) >>
            /\ (call.item.thumbnail = <<>> /\ ~HasKey(call.item, "season")) =>
                   f[5] = <<>> /\ f[6] = <<>>
            /\ call.item = SongOneItem =>
                   line = SongOne \o <<TAB>> \o <<"B", "a", "n", "d">> \o <<TAB>> \o <<"A", "l", "b", "u", "m", " ", "A">> \o <<TAB>>
                          \o <<"2", "0", "0", TAB, TAB, NL>>

(* The example's item has been accepted. *)
C23_Witness ==
    /\ call.f = "track" /\ call.done /\ call.ret.accepted
    /\ call.item = SongOneItem
    /\ Len(LineFields(call.ret.line)) = 6
(* C26: the previous thumbnail url changes only in a cycle that appends a  *)
(* record and resolves the thumbnail; a cycle that resolves a thumbnail    *)
(* and appends nothing, the title being the artist, leaves it as it was.   *)
C26_PrevThumbnailOnAcceptance ==
    (call.f = "track" /\ call.done /\ call.ret.saved /= call.prev_thumb) =>
        /\ call.ret.accepted
        /\ call.ret.status = "ok"
(* The text holds a double quote. *)
HasQuote(text) == \E k \in 1..Len(text) : text[k] = QUOTE

(* C30: in every record appended the artist and the album or series hold   *)
(* no double quote, whatever the remote returned, also when the artist was *)
(* taken from the title by the radio split.                                *)
C30_NoQuotes ==
    (call.f = "track" /\ call.done /\ call.ret.accepted) =>
        /\ ~HasQuote(LineFields(call.ret.line)[2])
        /\ ~HasQuote(LineFields(call.ret.line)[3])
(* The total time of a Player.GetProperties answer, in seconds. *)
TotalSeconds(body) ==
    body.result.totaltime.hours * 3600 + body.result.totaltime.minutes * 60
    + body.result.totaltime.seconds

(* The answer carries the total time and the percentage. *)
HasTimes(net) ==
    /\ net.kind = "ok"
    /\ HasKey(net.body, "result")
    /\ HasKey(net.body.result, "totaltime")
    /\ HasKey(net.body.result, "percentage")

(* C31: the duration of an appended record is the item's duration field    *)
(* when the item has one; otherwise the total time computed from the       *)
(* playback properties; and 0 when that fails (failed request, missing     *)
(* fields, no player), the record being appended all the same.             *)
C31_DurationFallback ==
    (call.f = "track" /\ call.done /\ call.ret.changed) =>
        /\ call.ret.accepted <=> call.ret.title /= call.ret.artist
        /\ call.ret.accepted =>
             LineFields(call.ret.line)[4] =
                 int_str(IF HasKey(call.item, "duration") THEN call.item.duration
                         ELSE IF call.pid >= 0 /\ HasTimes(call.nett)
                         THEN TotalSeconds(call.nett.body)
                         ELSE 0)

(* An item without duration was appended with the computed total. *)
C31_Witness ==
    /\ call.f = "track" /\ call.done /\ call.ret.accepted
    /\ ~HasKey(call.item, "duration")
    /\ call.pid >= 0 /\ HasTimes(call.nett)
    /\ LineFields(call.ret.line)[4] = <<"2", "0", "0">>
(* C32: the album or series of an appended record is the item's show title *)
(* when the response has that field, and the item's album otherwise, the   *)
(* double quotes removed.                                                  *)
C32_ShowTitleFirst ==
    (call.f = "track" /\ call.done /\ call.ret.accepted) =>
        LineFields(call.ret.line)[3] =
            SelectSeq(IF HasKey(call.item, "showtitle") THEN call.item.showtitle
                      ELSE call.item.album,
                      LAMBDA c : c /= QUOTE)

(* An item with a show title and another album was appended. *)
C32_Witness ==
    /\ call.f = "track" /\ call.done /\ call.ret.accepted
    /\ call.item = SeriesAlbumItem
    /\ LineFields(call.ret.line)[3] = <<"X">>
(* The notification of show_song_info() for a song, read from the log that *)
(* holds the records before and the line just appended.                    *)
ShownAfterAppend(before, line) ==
    show_song_info(1, before \o line, "song", 0, FALSE, 10, NetOk(TimesBody), TRUE).note

(* C33: the notification of an accepted song is read from the log after    *)
(* the append and shows the record just appended: its title is the title   *)
(* of the last record of the log, the one of this cycle.                   *)
C33_ShowsAppended ==
    (call.f = "track" /\ call.done /\ call.ret.accepted) =>
        \A before \in {<<>>, Record2} :
            ShownAfterAppend(before, call.ret.line) = SongNote(call.ret.title)
(* C38: get_media_times returns a triple (total, played, left) on every    *)
(* path, without player and when the request fails too, so that the        *)
(* three-name unpacking of show_song_info does not raise.                  *)
C38_AlwaysTriple ==
    (call.f = "get_media_times" /\ call.done) =>
        /\ call.ret.exc = "none"
        /\ call.ret.val.py = "tuple"
        /\ Len(call.ret.val.v) = 3
        /\ unpack3(call.ret).exc = "none"
====
